---- MODULE Spec2Model ----
(***************************************************************************)
(* Routing, health monitoring and database synchronisation of the unified  *)
(* WhatsApp MCP (unified-mcp/backends/health.py, unified-mcp/routing.py,   *)
(* unified-mcp/sync.py).                                                   *)
(*                                                                         *)
(* Three specifications share this module:                                 *)
(*   SpecHealth  the HealthMonitor: single probes, check_all,              *)
(*               is_backend_available, with its counters and cache;        *)
(*   SpecRouter  the Router: select_backend, route_call and                *)
(*               route_with_fallback (one step per attempt);               *)
(*   SpecSync    DatabaseSyncService.sync_messages.                        *)
(* Every HTTP exchange is an input chosen by the environment.  An          *)
(* exception is a value: an operator that models code which can raise      *)
(* returns a record whose "raised" field names the exception class, and    *)
(* the operators that model try/except decide which of them are caught.    *)
(***************************************************************************)
EXTENDS Integers, Sequences, FiniteSets, TLC

VARIABLES
    monitor,              \* HealthMonitor instance: counters and last-known-health cache
    health_ret,           \* SpecHealth: the last HealthMonitor call and what it returned
    streak,               \* SpecHealth: per backend, failed checks since the last successful one
    operation_strategies, \* Router.operation_strategies
    round_robin_counter,  \* Router.round_robin_counter
    rr_selections,        \* SpecRouter: ROUND_ROBIN selections that chose a backend so far
    call,                 \* SpecRouter: the Router call in progress or last finished
    pc,                   \* SpecRouter: position inside that call
    frame,                \* SpecRouter: locals of route_with_fallback
    probes,               \* SpecRouter: <<backend, usable>> of every probe of the call
    call_log,             \* SpecRouter: backend functions invoked by the call, in order
    route_ret,            \* SpecRouter: what the call returned
    sync_in,              \* SpecSync: what the stores answered during the last sync_messages
    sync_log,             \* SpecSync: steps the last sync_messages performed, in order
    submitted,            \* SpecSync: messages posted to the primary store's batch insert
    sync_ret,             \* SpecSync: what sync_messages returned
    threads,              \* SpecRoundRobin: per thread, its ROUND_ROBIN select_backend call
    listing,              \* SpecSyncAll: what GET /chats/list answered
    position,             \* SpecSyncAll: chats of the listing the loop has gone through
    results,              \* SpecSyncAll: the results dict of sync_all_chats
    sync_calls,           \* SpecSyncAll: chat_jid of every sync_messages call, in order
    all_pc,               \* SpecSyncAll: position inside sync_all_chats
    all_ret,              \* SpecSyncAll: what sync_all_chats returned
    workflow_ret,         \* SpecWorkflow: the finished tool call, its answers and result
    args_ret,             \* SpecRouterArgs: the finished Router call and its arguments
    wait,                 \* SpecWait: the wait_for_backend call in progress
    stores                \* SpecStores: the two stores and the sync_messages calls in progress

vars == <<monitor, health_ret, streak, operation_strategies, round_robin_counter,
          rr_selections,
          call, pc, frame, probes, call_log, route_ret,
          sync_in, sync_log, submitted, sync_ret,
          threads, listing, position, results, sync_calls, all_pc, all_ret,
          workflow_ret, args_ret, wait, stores>>

healthVars == <<monitor, health_ret, streak>>
routerVars == <<operation_strategies, round_robin_counter, rr_selections, call, pc, frame,
                probes, call_log, route_ret>>
syncVars == <<sync_in, sync_log, submitted, sync_ret>>
roundRobinVars == <<threads>>
syncAllVars == <<listing, position, results, sync_calls, all_pc, all_ret>>
workflowVars == <<workflow_ret>>
argsVars == <<args_ret>>
waitVars == <<wait>>
storeVars == <<stores>>
\* The variables of the specifications that follow SpecSync.
restVars == <<roundRobinVars, syncAllVars, workflowVars, argsVars, waitVars,
              storeVars>>

\* ------------------------------------------------------------------ bounds

\* Largest value a failure counter takes in the model.
MaxFailures == 2
\* Largest value the round-robin counter takes in the model.
MaxCounter == 2
\* Longest batch the secondary store returns in the model.
MaxBatch == 2
\* Longest timeout of a wait_for_backend in the model, in seconds.
MaxTimeout == 3
\* batch_size of the DatabaseSyncService of SpecStores.
SyncBatchSize == 1
\* Longest chat listing the secondary store returns in the model.
MaxChats == 3

\* ------------------------------------------------------------ common values

\* Python's None.
None == "None"

Backends == {"go", "baileys"}

\* Statuses the availability tests accept (health.py:262, 264, 300, 303).
AvailableStatuses == {"ok", "degraded"}

\* ------------------------------------------------- health endpoint answers

\* A key of the JSON body that is not there.
Absent == "absent"

\* What one GET /health can do: raise, or answer with a status code and a body.
\* Fields that do not apply to a kind hold a fixed filler.
NoBody == [parse_ok |-> FALSE, status |-> Absent, whatsapp_connected |-> Absent,
           connected |-> Absent]

ExceptionKinds == {"Timeout", "ConnectionError", "Exception"}

RaisingResponses ==
    {[kind |-> k, code |-> 0, body |-> NoBody, time |-> t] :
        k \in ExceptionKinds, t \in {1}}

ErrorCodes == {500, 503}

Non200Responses ==
    {[kind |-> "http", code |-> c, body |-> NoBody, time |-> 1] : c \in ErrorCodes}

\* HTTP 200 whose body is not JSON: response.json() raises.
UnparseableResponses ==
    {[kind |-> "http", code |-> 200, body |-> NoBody, time |-> 1]}

\* The JSON bodies of the model: an empty object, and bodies that set the status
\* together with one of the two names of the connectivity flag.  "maintenance"
\* stands for a status outside the four the monitor itself produces.
Bodies ==
    {[parse_ok |-> TRUE, status |-> Absent, whatsapp_connected |-> Absent,
      connected |-> Absent],
     [parse_ok |-> TRUE, status |-> "degraded", whatsapp_connected |-> "true",
      connected |-> Absent],
     [parse_ok |-> TRUE, status |-> "error", whatsapp_connected |-> Absent,
      connected |-> "true"],
     [parse_ok |-> TRUE, status |-> "maintenance", whatsapp_connected |-> "false",
      connected |-> "true"]}

OkResponses ==
    {[kind |-> "http", code |-> 200, body |-> b, time |-> 1] : b \in Bodies}

\* The answers the health specification draws from.
Responses ==
    RaisingResponses \cup Non200Responses \cup UnparseableResponses \cup OkResponses

\* dict.get(key, default) on a body field holding a JSON boolean.
GetBool(value, default) == IF value = Absent THEN default ELSE value = "true"

\* ------------------------------------------------------------ HealthMonitor

\* BackendHealth(...) as the failure paths build it: not connected, database
\* not ok, uptime 0.
FailedHealth(backend, status, response_time_ms, error_message) ==
    [backend |-> backend, status |-> status, whatsapp_connected |-> FALSE,
     database_ok |-> FALSE, response_time_ms |-> response_time_ms,
     error_message |-> error_message]

\* A value returned normally / an exception leaving the code.
Return(value) == [raised |-> "none", value |-> value]
Raise(exception) == [raised |-> exception, value |-> None]

\* str(e) of the exceptions of the model.
StrOf(exception) == "str(" \o exception \o ")"

\* f"HTTP {response.status_code}"
HttpMessage(code) == "HTTP " \o ToString(code)

\* The try block of check_go_health / check_baileys_health: the request, and
\* what is built from its answer.  connected_default is the default of the
\* whatsapp_connected lookup, the one place where the two methods differ.
TryProbe(backend, resp, connected_default) ==
    IF resp.kind # "http" THEN Raise(resp.kind)
    ELSE IF resp.code = 200
         THEN IF ~resp.body.parse_ok THEN Raise("Exception")
              ELSE Return(
                   [backend |-> backend,
                    status |-> IF resp.body.status = Absent THEN "ok"
                               ELSE resp.body.status,
                    whatsapp_connected |->
                        GetBool(resp.body.whatsapp_connected, connected_default),
                    database_ok |-> TRUE,
                    response_time_ms |-> resp.time,
                    error_message |-> None])
         ELSE Return(FailedHealth(backend, "error", resp.time, HttpMessage(resp.code)))

\* Faulty variant: the last clause, except Exception, is missing.
HandleProbe_NoCatchAll(backend, resp, tried) ==
    IF tried.raised = "none" THEN tried
    ELSE IF tried.raised = "Timeout"
         THEN Return(FailedHealth(backend, "unreachable", resp.time, "Health check timeout"))
    ELSE IF tried.raised = "ConnectionError"
         THEN Return(FailedHealth(backend, "unreachable", 0, "Connection refused"))
    ELSE tried

\* Faulty variant: the last clause reports the backend as unreachable.
HandleProbe_AllUnreachable(backend, resp, tried) ==
    IF tried.raised = "none" THEN tried
    ELSE IF tried.raised = "Timeout"
         THEN Return(FailedHealth(backend, "unreachable", resp.time, "Health check timeout"))
    ELSE IF tried.raised = "ConnectionError"
         THEN Return(FailedHealth(backend, "unreachable", 0, "Connection refused"))
    ELSE Return(FailedHealth(backend, "unreachable", 0, StrOf(tried.raised)))

\* The except clauses of the two methods, in their order.
HandleProbe(backend, resp, tried) ==
    IF tried.raised = "none" THEN tried
    ELSE IF tried.raised = "Timeout"
         THEN Return(FailedHealth(backend, "unreachable", resp.time, "Health check timeout"))
    ELSE IF tried.raised = "ConnectionError"
         THEN Return(FailedHealth(backend, "unreachable", 0, "Connection refused"))
    ELSE Return(FailedHealth(backend, "error", 0, StrOf(tried.raised)))

\* Whether the probe took the path that resets the counter and caches the
\* result (HTTP 200 with a body that parsed).
ProbeSucceeded(resp) == resp.kind = "http" /\ resp.code = 200 /\ resp.body.parse_ok

\* Faulty variant: every HTTP answer, whatever its code, resets the counter.
CountAfter_ResetOnHttp(count, resp) == IF resp.kind = "http" THEN 0 ELSE count + 1

\* Faulty variant: a successful check leaves the counter as it is.
CountAfter_NoReset(count, resp) == IF ProbeSucceeded(resp) THEN count ELSE count + 1

\* The counter after the probe: reset on success, one more on every other path.
CountAfter(count, resp) == IF ProbeSucceeded(resp) THEN 0 ELSE count + 1

\* check_go_health: the result and the monitor afterwards.
check_go_health(m, resp) ==
    LET out == HandleProbe("go", resp, TryProbe("go", resp, FALSE))
    IN [out |-> out,
        m |-> [m EXCEPT !.go_failure_count = CountAfter(@, resp),
                        !.last_go_health =
                            IF ProbeSucceeded(resp) THEN out.value ELSE @]]

\* check_baileys_health: whatsapp_connected falls back to the body's "connected".
check_baileys_health(m, resp) ==
    LET out == HandleProbe("baileys", resp,
                   TryProbe("baileys", resp, GetBool(resp.body.connected, FALSE)))
    IN [out |-> out,
        m |-> [m EXCEPT !.baileys_failure_count = CountAfter(@, resp),
                        !.last_baileys_health =
                            IF ProbeSucceeded(resp) THEN out.value ELSE @]]

\* The list of available backends check_all builds, go first.
AvailableBackends(go_health, baileys_health) ==
    (IF go_health.status \in AvailableStatuses THEN <<"go">> ELSE <<>>)
    \o (IF baileys_health.status \in AvailableStatuses THEN <<"baileys">> ELSE <<>>)

\* x in list
In(x, list) == \E i \in 1..Len(list) : list[i] = x

\* Faulty variant: baileys is looked for first.
PrimaryOf_BaileysFirst(available_backends) ==
    IF In("baileys", available_backends) THEN "baileys"
    ELSE IF In("go", available_backends) THEN "go" ELSE "none"

\* primary_backend: the first of the available backends, else "none".
PrimaryOf(available_backends) ==
    IF In("go", available_backends) THEN "go"
    ELSE IF In("baileys", available_backends) THEN "baileys" ELSE "none"

\* Faulty variant: any available backend makes the overall status ok.
OverallStatusOf_AnyIsOk(available_backends) ==
    IF Len(available_backends) >= 1 THEN "ok" ELSE "error"

OverallStatusOf(available_backends) ==
    IF Len(available_backends) = 2 THEN "ok"
    ELSE IF Len(available_backends) = 1 THEN "degraded" ELSE "error"

\* The OverallHealth check_all builds from the two probe results.
OverallHealth(go_health, baileys_health) ==
    LET available_backends == AvailableBackends(go_health, baileys_health)
    IN [status |-> OverallStatusOf(available_backends),
        primary_backend |-> PrimaryOf(available_backends),
        go_backend |-> go_health,
        baileys_backend |-> baileys_health,
        available_backends |-> available_backends]

\* check_all: go is probed, then baileys, and the two results are aggregated.
\* Nothing in check_all catches: an exception of a probe would leave it as it is.
check_all(m, go_resp, baileys_resp) ==
    LET Aggregate(g, b) ==
            IF g.out.raised # "none" THEN g
            ELSE IF b.out.raised # "none" THEN b
            ELSE [out |-> Return(OverallHealth(g.out.value, b.out.value)), m |-> b.m]
    IN Aggregate(check_go_health(m, go_resp),
                 check_baileys_health(check_go_health(m, go_resp).m, baileys_resp))

\* is_backend_available for "go" or "baileys": a fresh probe of that backend.
is_backend_available(m, backend, resp) ==
    LET p == IF backend = "go" THEN check_go_health(m, resp)
             ELSE check_baileys_health(m, resp)
    IN IF p.out.raised # "none" THEN p
       ELSE [out |-> Return(p.out.value.status \in AvailableStatuses), m |-> p.m]

\* get_preferred_backend: check_all, and its primary_backend unless that is
\* "none"; overall is the OverallHealth it looked at.
get_preferred_backend(m, go_resp, baileys_resp) ==
    LET Prefer(r) ==
            IF r.out.raised # "none" THEN [out |-> r.out, m |-> r.m, overall |-> None]
            ELSE [out |-> Return(IF r.out.value.primary_backend # "none"
                                 THEN r.out.value.primary_backend ELSE None),
                  m |-> r.m,
                  overall |-> r.out.value]
    IN Prefer(check_all(m, go_resp, baileys_resp))

\* HealthMonitor.__init__
InitMonitor ==
    [go_failure_count |-> 0, baileys_failure_count |-> 0,
     last_go_health |-> None, last_baileys_health |-> None]

FailureCount(m, backend) ==
    IF backend = "go" THEN m.go_failure_count ELSE m.baileys_failure_count

\* The two counters, by backend.
Counts(m) == [b \in Backends |-> FailureCount(m, b)]

\* The counters stay within the model's bound.
WithinFailures(m) ==
    m.go_failure_count <= MaxFailures /\ m.baileys_failure_count <= MaxFailures

\* A check that failed: the request raised, the status code was not 200, or the
\* body of a 200 could not be read.
FailedCheck(resp) ==
    \/ resp.kind \in ExceptionKinds
    \/ resp.kind = "http" /\ resp.code # 200
    \/ resp.kind = "http" /\ resp.code = 200 /\ resp.body = NoBody

\* The number of failed checks of each backend since its last check that did
\* not fail, after one more check of backend.
StreakAfter(s, backend, resp) ==
    [s EXCEPT ![backend] = IF FailedCheck(resp) THEN @ + 1 ELSE 0]

\* ------------------------------------------------------ SpecHealth actions

\* health_ret when no call has returned since the caller took the last result.
NoHealthCall ==
    [op |-> "none", backend |-> None, resps |-> <<>>,
     before |-> [b \in Backends |-> 0], out |-> Return(None), overall |-> None]

\* No HealthMonitor call is waiting for its result to be taken.
HealthIdle == health_ret.op = "none"

\* What a finished call leaves in health_ret.
Finished(op, backend, resps, out) ==
    [op |-> op, backend |-> backend, resps |-> resps, before |-> Counts(monitor),
     out |-> out, overall |-> None]

\* The caller takes the result of the finished call.
HealthReturn ==
    /\ ~HealthIdle
    /\ health_ret' = NoHealthCall
    /\ UNCHANGED <<monitor, streak, routerVars, syncVars, restVars>>

CheckGoHealth ==
    /\ HealthIdle
    /\ \E resp \in Responses :
           LET r == check_go_health(monitor, resp)
           IN /\ WithinFailures(r.m)
              /\ monitor' = r.m
              /\ health_ret' = Finished("check_go_health", "go", <<resp>>, r.out)
              /\ streak' = StreakAfter(streak, "go", resp)
              /\ UNCHANGED <<routerVars, syncVars, restVars>>

CheckBaileysHealth ==
    /\ HealthIdle
    /\ \E resp \in Responses :
           LET r == check_baileys_health(monitor, resp)
           IN /\ WithinFailures(r.m)
              /\ monitor' = r.m
              /\ health_ret' = Finished("check_baileys_health", "baileys", <<resp>>, r.out)
              /\ streak' = StreakAfter(streak, "baileys", resp)
              /\ UNCHANGED <<routerVars, syncVars, restVars>>

CheckAll ==
    /\ HealthIdle
    /\ \E go_resp \in Responses, baileys_resp \in Responses :
           LET r == check_all(monitor, go_resp, baileys_resp)
           IN /\ WithinFailures(r.m)
              /\ monitor' = r.m
              /\ health_ret' = Finished("check_all", None, <<go_resp, baileys_resp>>, r.out)
              /\ streak' = StreakAfter(StreakAfter(streak, "go", go_resp),
                                       "baileys", baileys_resp)
              /\ UNCHANGED <<routerVars, syncVars, restVars>>

IsBackendAvailable ==
    /\ HealthIdle
    /\ \E backend \in Backends, resp \in Responses :
           LET r == is_backend_available(monitor, backend, resp)
           IN /\ WithinFailures(r.m)
              /\ monitor' = r.m
              /\ health_ret' = Finished("is_backend_available", backend, <<resp>>, r.out)
              /\ streak' = StreakAfter(streak, backend, resp)
              /\ UNCHANGED <<routerVars, syncVars, restVars>>

GetPreferredBackend ==
    /\ HealthIdle
    /\ \E go_resp \in Responses, baileys_resp \in Responses :
       \E r \in {get_preferred_backend(monitor, go_resp, baileys_resp)} :
           /\ WithinFailures(r.m)
           /\ monitor' = r.m
           /\ health_ret' = [Finished("get_preferred_backend", None,
                                      <<go_resp, baileys_resp>>, r.out)
                                EXCEPT !.overall = r.overall]
           /\ streak' = StreakAfter(StreakAfter(streak, "go", go_resp),
                                    "baileys", baileys_resp)
           /\ UNCHANGED <<routerVars, syncVars, restVars>>

\* ------------------------------------------------------------------ Router

OperationTypes ==
    {"send_message", "send_file", "send_audio", "mark_as_read", "download_media",
     "sync_full_history", "sync_chat_history",
     "list_communities", "get_community_groups", "mark_community_as_read",
     "search_contacts", "list_contacts",
     "list_chats", "get_chat", "list_messages"}

RoutingStrategies ==
    {"primary_only", "prefer_go", "prefer_baileys", "round_robin", "fastest"}

\* Router.__init__: the strategy of every operation type.
InitStrategies ==
    [op \in OperationTypes |->
        IF op = "sync_full_history" THEN "prefer_baileys" ELSE "prefer_go"]

\* self.operation_strategies.get(operation, RoutingStrategy.PREFER_GO)
StrategyOf(table, operation) ==
    IF operation \in DOMAIN table THEN table[operation] ELSE "prefer_go"

\* Faulty variant: the fallback is never used.
_select_with_preference_NoFallback(preferred, fallback, available) ==
    IF In(preferred, available) THEN preferred ELSE None

_select_with_preference(preferred, fallback, available) ==
    IF In(preferred, available) THEN preferred
    ELSE IF In(fallback, available) THEN fallback
    ELSE None

\* Faulty variant: go is returned when it is not slower.
_select_fastest_backend_GoOnTie(overall_health) ==
    IF /\ overall_health.go_backend.status \in AvailableStatuses
       /\ overall_health.baileys_backend.status \in AvailableStatuses
    THEN IF overall_health.go_backend.response_time_ms
                <= overall_health.baileys_backend.response_time_ms
         THEN "go" ELSE "baileys"
    ELSE None

\* Faulty variant: go whenever both backends are available.
_select_fastest_backend_AlwaysGo(overall_health) ==
    IF /\ overall_health.go_backend.status \in AvailableStatuses
       /\ overall_health.baileys_backend.status \in AvailableStatuses
    THEN "go" ELSE None

_select_fastest_backend(overall_health) ==
    LET go_backend == overall_health.go_backend
        baileys_backend == overall_health.baileys_backend
        go_ok == go_backend.status \in AvailableStatuses
        baileys_ok == baileys_backend.status \in AvailableStatuses
    IN IF go_ok /\ baileys_ok
       THEN IF go_backend.response_time_ms < baileys_backend.response_time_ms
            THEN "go" ELSE "baileys"
       ELSE None

\* Faulty variant: the "none" sentinel of OverallHealth is returned as it is.
PrimaryOnly_Verbatim(overall_health) == overall_health.primary_backend

\* The PRIMARY_ONLY branch: the primary backend, None for the "none" sentinel.
PrimaryOnly(overall_health) ==
    IF overall_health.primary_backend # "none"
    THEN overall_health.primary_backend ELSE None

\* Faulty variant: ROUND_ROBIN takes the index from the counter as it was
\* before the increment.
ApplyStrategy_OldCounter(strategy, overall_health, counter) ==
    [backend |->
         IF strategy = "primary_only" THEN PrimaryOnly(overall_health)
         ELSE IF strategy = "prefer_baileys"
         THEN _select_with_preference("baileys", "go", overall_health.available_backends)
         ELSE IF strategy = "round_robin"
         THEN IF Len(overall_health.available_backends) = 0 THEN None
              ELSE overall_health.available_backends[
                       (counter % Len(overall_health.available_backends)) + 1]
         ELSE IF strategy = "fastest" /\ _select_fastest_backend(overall_health) # None
         THEN _select_fastest_backend(overall_health)
         ELSE _select_with_preference("go", "baileys", overall_health.available_backends),
     counter |-> IF strategy = "round_robin"
                    /\ Len(overall_health.available_backends) > 0
                 THEN counter + 1 ELSE counter]

\* Faulty variant: every strategy advances the round-robin counter.
ApplyStrategy_AlwaysCounts(strategy, overall_health, counter) ==
    [backend |->
         IF strategy = "primary_only" THEN PrimaryOnly(overall_health)
         ELSE IF strategy = "prefer_baileys"
         THEN _select_with_preference("baileys", "go", overall_health.available_backends)
         ELSE IF strategy = "round_robin"
         THEN IF Len(overall_health.available_backends) = 0 THEN None
              ELSE overall_health.available_backends[
                       ((counter + 1) % Len(overall_health.available_backends)) + 1]
         ELSE IF strategy = "fastest" /\ _select_fastest_backend(overall_health) # None
         THEN _select_fastest_backend(overall_health)
         ELSE _select_with_preference("go", "baileys", overall_health.available_backends),
     counter |-> IF Len(overall_health.available_backends) = 0 THEN counter
                 ELSE counter + 1]

\* The strategy branches of select_backend: the backend chosen and the
\* round-robin counter afterwards.
ApplyStrategy(strategy, overall_health, counter) ==
    LET available_backends == overall_health.available_backends
    IN IF strategy = "primary_only"
       THEN [backend |-> PrimaryOnly(overall_health), counter |-> counter]
       ELSE IF strategy = "prefer_go"
       THEN [backend |-> _select_with_preference("go", "baileys", available_backends),
             counter |-> counter]
       ELSE IF strategy = "prefer_baileys"
       THEN [backend |-> _select_with_preference("baileys", "go", available_backends),
             counter |-> counter]
       ELSE IF strategy = "round_robin"
       THEN IF Len(available_backends) = 0
            THEN [backend |-> None, counter |-> counter]
            ELSE [backend |->
                      available_backends[((counter + 1) % Len(available_backends)) + 1],
                  counter |-> counter + 1]
       ELSE IF strategy = "fastest"
       THEN LET fastest == _select_fastest_backend(overall_health)
            IN [backend |-> IF fastest # None THEN fastest
                            ELSE _select_with_preference("go", "baileys",
                                                         available_backends),
                counter |-> counter]
       ELSE [backend |-> None, counter |-> counter]

\* A status with which a backend can serve traffic: ok or degraded.  The
\* record of what the probes of a call found is kept with it.
Usable(status) == status = "ok" \/ status = "degraded"

\* The status a probe of backend reports for the answer resp.
StatusOf(m, backend, resp) ==
    (IF backend = "go" THEN check_go_health(m, resp)
     ELSE check_baileys_health(m, resp)).out.value.status

\* Faulty variant: the required backend is returned without regard to the probe.
RequiredOrNone_Unchecked(required_backend, available) == required_backend

\* The required_backend branch: that backend if the probe found it available.
RequiredOrNone(required_backend, available) ==
    IF available THEN required_backend ELSE None

\* select_backend.  resps are the answers of the health endpoints to the probes
\* the call makes: one when required_backend is given, else two (go, baileys).
\* The result names the backend (or None), the counter afterwards, whether
\* each probe reported a usable status, and the OverallHealth the strategy was applied to, if any.
select_backend(table, counter, operation, required_backend, m, resps) ==
    IF required_backend # None
    THEN [backend |->
              RequiredOrNone(required_backend,
                  is_backend_available(m, required_backend, resps[1]).out.value),
          counter |-> counter,
          probes |-> <<<<required_backend,
                         Usable(StatusOf(m, required_backend, resps[1]))>>>>,
          overall |-> <<>>]
    ELSE LET Select(overall_health) ==
                 LET chosen == ApplyStrategy(StrategyOf(table, operation),
                                             overall_health, counter)
                 IN [backend |-> chosen.backend,
                     counter |-> chosen.counter,
                     probes |-> <<<<"go", Usable(overall_health.go_backend.status)>>,
                                  <<"baileys",
                                    Usable(overall_health.baileys_backend.status)>>>>,
                     overall |-> <<overall_health>>]
         IN Select(check_all(m, resps[1], resps[2]).out.value)

\* The backend functions a caller hands to the Router: each either returns its
\* result or raises its exception; baileys_func may be None.
FuncBehaviours == {"returns", "raises"}
ResultOf(backend) == backend \o " result"
ErrorOf(backend) == backend \o " error"
InvokeFunc(backend, behaviour) ==
    IF behaviour = "returns" THEN Return(ResultOf(backend)) ELSE Raise(ErrorOf(backend))

\* The try block of route_call for a selected backend: the (success, result)
\* tuple it returns or the exception that leaves it, and the functions invoked.
TryRoute(backend, go_func, baileys_func) ==
    IF backend = "go"
    THEN LET r == InvokeFunc("go", go_func)
         IN [out |-> IF r.raised = "none" THEN Return(<<TRUE, r.value>>) ELSE r,
             invoked |-> <<"go">>]
    ELSE IF backend = "baileys"
    THEN IF baileys_func = None
         THEN [out |-> Return(<<FALSE, "Baileys backend not supported for this operation">>),
               invoked |-> <<>>]
         ELSE LET r == InvokeFunc("baileys", baileys_func)
              IN [out |-> IF r.raised = "none" THEN Return(<<TRUE, r.value>>) ELSE r,
                  invoked |-> <<"baileys">>]
    ELSE [out |-> Return(<<FALSE, "Unknown backend: " \o backend>>), invoked |-> <<>>]

\* Faulty variant: no except clause around the call.
CatchRoute_Propagates(tried) == tried

\* except Exception as e: return False, str(e)
CatchRoute(tried) ==
    IF tried.raised = "none" THEN tried ELSE Return(<<FALSE, StrOf(tried.raised)>>)

\* route_call: select_backend, then the selected backend's function.
route_call(table, counter, operation, go_func, baileys_func, required_backend, m, resps) ==
    LET Dispatch(sel) ==
            LET tried == TryRoute(sel.backend, go_func, baileys_func)
            IN IF sel.backend = None
               THEN [out |-> Return(<<FALSE, "No backend available">>),
                     invoked |-> <<>>, sel |-> sel]
               ELSE [out |-> CatchRoute(tried.out), invoked |-> tried.invoked,
                     sel |-> sel]
    IN Dispatch(select_backend(table, counter, operation, required_backend, m, resps))

\* Faulty variant: the loop takes the first available backend, the primary included.
FallbackOf_FirstAvailable(available_backends, primary_backend) ==
    IF Len(available_backends) = 0 THEN None ELSE available_backends[1]

\* The loop of route_with_fallback over available_backends: the first backend
\* that is not the primary one, None when there is none.
FallbackOf(available_backends, primary_backend) ==
    LET others == SelectSeq(available_backends, LAMBDA b : b # primary_backend)
    IN IF Len(others) = 0 THEN None ELSE others[1]

\* ------------------------------------------------------ SpecRouter actions

\* The answers the router specification draws from: healthy after one time
\* unit, degraded after two, HTTP 200 reporting status error, connection refused.
RouterResponses ==
    {[kind |-> "http", code |-> 200, body |-> b, time |-> 1] :
        b \in {x \in Bodies : x.status \in {Absent, "error"}}}
    \cup {[kind |-> "http", code |-> 200, body |-> b, time |-> 2] :
        b \in {x \in Bodies : x.status = "degraded"}}
    \cup {[kind |-> "ConnectionError", code |-> 0, body |-> NoBody, time |-> 1]}

\* An operation type that is not in the strategy table.
UnknownOperation == "new_operation"

\* The operations the model's callers route, and the ones whose strategy the
\* model overrides.
CallOperations == {"send_message", "sync_full_history", UnknownOperation}
OverridableOperations == {"send_message"}

\* No Router call is in progress and the last result has been taken.
RouterIdle == pc = "idle"

NotReturned == Return(None)

NoFrame == [primary_backend |-> None, overall |-> <<>>, first |-> <<>>,
            fallback_backend |-> None]

CallOf(fn, operation, required_backend, go_func, baileys_func) ==
    [fn |-> fn, operation |-> operation,
     strategy |-> StrategyOf(operation_strategies, operation),
     counter |-> round_robin_counter,
     required_backend |-> required_backend,
     go_func |-> go_func, baileys_func |-> baileys_func]

IdleCall ==
    [fn |-> "none", operation |-> None, strategy |-> None, counter |-> 0,
     required_backend |-> None, go_func |-> None, baileys_func |-> None]

\* The ROUND_ROBIN selections that chose a backend, after a select_backend for
\* operation has returned backend; a call with required_backend is none.
SelectionsAfter(operation, required_backend, backend) ==
    IF /\ required_backend = None
       /\ StrategyOf(operation_strategies, operation) = "round_robin"
       /\ backend # None
    THEN rr_selections + 1 ELSE rr_selections

\* The caller takes the result of the finished call.
RouterReturn ==
    /\ pc = "done"
    /\ pc' = "idle"
    /\ call' = IdleCall
    /\ frame' = NoFrame
    /\ probes' = <<>>
    /\ call_log' = <<>>
    /\ route_ret' = NotReturned
    /\ UNCHANGED <<operation_strategies, round_robin_counter, rr_selections, healthVars, syncVars, restVars>>

\* router.operation_strategies[op] = strategy, between calls.
SetStrategy ==
    /\ RouterIdle
    /\ \E op \in OverridableOperations, strategy \in RoutingStrategies :
           /\ operation_strategies[op] # strategy
           /\ operation_strategies' = [operation_strategies EXCEPT ![op] = strategy]
           /\ UNCHANGED <<round_robin_counter, rr_selections, call, pc, frame, probes, call_log, route_ret>>
           /\ UNCHANGED <<healthVars, syncVars, restVars>>

\* The probes a select_backend call makes.
ProbeAnswers(required_backend) ==
    IF required_backend # None
    THEN {<<r>> : r \in RouterResponses}
    ELSE {<<r1, r2>> : r1 \in RouterResponses, r2 \in RouterResponses}

SelectBackend ==
    /\ RouterIdle
    /\ \E operation \in CallOperations, required_backend \in Backends \cup {None} :
       \E resps \in ProbeAnswers(required_backend) :
           \E sel \in {select_backend(operation_strategies, round_robin_counter,
                                     operation, required_backend, monitor, resps)} :
              /\ sel.counter <= MaxCounter
              /\ round_robin_counter' = sel.counter
              /\ rr_selections' = SelectionsAfter(operation, required_backend, sel.backend)
              /\ call' = CallOf("select_backend", operation, required_backend, None, None)
              /\ pc' = "done"
              /\ frame' = [NoFrame EXCEPT !.overall = sel.overall]
              /\ probes' = sel.probes
              /\ call_log' = <<>>
              /\ route_ret' = Return(sel.backend)
              /\ UNCHANGED <<operation_strategies, healthVars, syncVars, restVars>>

\* Faulty variant: the sentinel "none" is what counts as no backend.
IsNotNone_Sentinel(backend) == backend # "none"

\* self.select_backend(operation) is not None
IsNotNone(backend) == backend # None

\* is_operation_available: a select_backend without required_backend, and
\* whether it returned a backend.
IsOperationAvailable ==
    /\ RouterIdle
    /\ \E operation \in CallOperations :
       \E resps \in ProbeAnswers(None) :
           \E sel \in {select_backend(operation_strategies, round_robin_counter,
                                     operation, None, monitor, resps)} :
              /\ sel.counter <= MaxCounter
              /\ round_robin_counter' = sel.counter
              /\ rr_selections' = SelectionsAfter(operation, None, sel.backend)
              /\ call' = CallOf("is_operation_available", operation, None, None, None)
              /\ pc' = "done"
              /\ frame' = [NoFrame EXCEPT !.overall = sel.overall,
                                          !.primary_backend = sel.backend]
              /\ probes' = sel.probes
              /\ call_log' = <<>>
              /\ route_ret' = Return(IsNotNone(sel.backend))
              /\ UNCHANGED <<operation_strategies, healthVars, syncVars, restVars>>

RouteCall ==
    /\ RouterIdle
    /\ \E operation \in CallOperations, required_backend \in Backends \cup {None},
          go_func \in FuncBehaviours, baileys_func \in FuncBehaviours \cup {None} :
       \E resps \in ProbeAnswers(required_backend) :
           \E r \in {route_call(operation_strategies, round_robin_counter, operation,
                               go_func, baileys_func, required_backend, monitor, resps)} :
              /\ r.sel.counter <= MaxCounter
              /\ round_robin_counter' = r.sel.counter
              /\ rr_selections' = SelectionsAfter(operation, required_backend, r.sel.backend)
              /\ call' = CallOf("route_call", operation, required_backend,
                                go_func, baileys_func)
              /\ pc' = "done"
              /\ frame' = [NoFrame EXCEPT !.overall = r.sel.overall,
                                          !.primary_backend = r.sel.backend]
              /\ probes' = r.sel.probes
              /\ call_log' = r.invoked
              /\ route_ret' = r.out
              /\ UNCHANGED <<operation_strategies, healthVars, syncVars, restVars>>

\* Faulty variant: without a fallback the failure is reported anew.
PrimaryFailure_Generic(first) == <<FALSE, "No backend available">>

\* return False, result: the failure of the first attempt, when no other
\* backend is listed.
PrimaryFailure(first) == <<FALSE, first[2]>>

\* route_with_fallback up to the selection of the primary backend.
RouteWithFallbackSelect ==
    /\ RouterIdle
    /\ \E operation \in CallOperations,
          go_func \in FuncBehaviours, baileys_func \in FuncBehaviours \cup {None} :
       \E resps \in ProbeAnswers(None) :
           \E sel \in {select_backend(operation_strategies, round_robin_counter,
                                     operation, None, monitor, resps)} :
              /\ sel.counter <= MaxCounter
              /\ round_robin_counter' = sel.counter
              /\ rr_selections' = SelectionsAfter(operation, None, sel.backend)
              /\ call' = CallOf("route_with_fallback", operation, None,
                                go_func, baileys_func)
              /\ frame' = [NoFrame EXCEPT !.overall = sel.overall,
                                          !.primary_backend = sel.backend]
              /\ probes' = sel.probes
              /\ call_log' = <<>>
              /\ IF sel.backend = None
                 THEN pc' = "done" /\ route_ret' = Return(<<FALSE, "No backend available">>)
                 ELSE pc' = "primary" /\ route_ret' = NotReturned
              /\ UNCHANGED <<operation_strategies, healthVars, syncVars, restVars>>

\* route_with_fallback: the attempt pinned to the primary backend.
RouteWithFallbackPrimary ==
    /\ pc = "primary"
    /\ \E resps \in ProbeAnswers(frame.primary_backend) :
           \E r \in {route_call(operation_strategies, round_robin_counter, call.operation,
                               call.go_func, call.baileys_func, frame.primary_backend,
                               monitor, resps)} :
              /\ probes' = probes \o r.sel.probes
              /\ call_log' = call_log \o r.invoked
              /\ frame' = [frame EXCEPT !.first = r.out.value]
              /\ IF r.out.value[1]
                 THEN pc' = "done" /\ route_ret' = r.out
                 ELSE pc' = "fallback" /\ route_ret' = NotReturned
              /\ UNCHANGED <<operation_strategies, round_robin_counter, rr_selections, call>>
              /\ UNCHANGED <<healthVars, syncVars, restVars>>

\* route_with_fallback: the search for another available backend.
RouteWithFallbackCheck ==
    /\ pc = "fallback"
    /\ \E resps \in ProbeAnswers(None) :
           \E overall_health \in {check_all(monitor, resps[1], resps[2]).out.value} :
           LET fallback_backend == FallbackOf(overall_health.available_backends,
                                              frame.primary_backend)
           IN /\ probes' = probes \o
                     <<<<"go", Usable(overall_health.go_backend.status)>>,
                       <<"baileys", Usable(overall_health.baileys_backend.status)>>>>
              /\ frame' = [frame EXCEPT !.fallback_backend = fallback_backend]
              /\ IF fallback_backend = None
                 THEN pc' = "done" /\ route_ret' = Return(PrimaryFailure(frame.first))
                 ELSE pc' = "fallback_call" /\ route_ret' = NotReturned
              /\ UNCHANGED <<operation_strategies, round_robin_counter, rr_selections, call, call_log>>
              /\ UNCHANGED <<healthVars, syncVars, restVars>>

\* route_with_fallback: the attempt pinned to the fallback backend.
RouteWithFallbackRetry ==
    /\ pc = "fallback_call"
    /\ \E resps \in ProbeAnswers(frame.fallback_backend) :
           \E r \in {route_call(operation_strategies, round_robin_counter, call.operation,
                               call.go_func, call.baileys_func, frame.fallback_backend,
                               monitor, resps)} :
              /\ probes' = probes \o r.sel.probes
              /\ call_log' = call_log \o r.invoked
              /\ pc' = "done"
              /\ route_ret' = r.out
              /\ UNCHANGED <<operation_strategies, round_robin_counter, rr_selections, call, frame>>
              /\ UNCHANGED <<healthVars, syncVars, restVars>>

\* -------------------------------------------------- DatabaseSyncService

MessageIds == {"msg-001", "msg-002"}
Timestamps == {1, 2}

\* A message of the secondary store, by the two keys sync.py reads without a
\* default: msg["id"] and msg["timestamp"].
Messages == [id : MessageIds, timestamp : Timestamps]

\* The sequences over S of length at most n.
SeqsUpTo(S, n) == UNION {[1..k -> S] : k \in 0..n}

\* What GET /history/messages can do: fail (requests.RequestException, raised
\* again by _fetch_baileys_messages) or return a batch.
FetchAnswers ==
    {[raised |-> "RequestException", messages |-> <<>>]}
    \cup {[raised |-> "none", messages |-> b] : b \in SeqsUpTo(Messages, MaxBatch)}

\* What the lookup of existing ids can do.  _get_existing_message_ids stands
\* for a call to the primary store that is not written yet and returns set();
\* callers and tests replace it, so the model lets it return any set of ids,
\* the empty one included, or fail.
LookupAnswers ==
    {[raised |-> "Exception", existing_ids |-> {}]}
    \cup {[raised |-> "none", existing_ids |-> d] : d \in SUBSET MessageIds}

NoLookup == [raised |-> "not called", existing_ids |-> {}]

\* What POST /messages/batch can do for n submitted messages: fail, or answer
\* with an inserted_count between 0 and n, or answer without that key.
InsertAnswers(n) ==
    {[raised |-> "RequestException", has_count |-> FALSE, inserted_count |-> 0]}
    \cup {[raised |-> "none", has_count |-> FALSE, inserted_count |-> 0]}
    \cup {[raised |-> "none", has_count |-> TRUE, inserted_count |-> c] : c \in 0..n}

NoInsert == [raised |-> "not called", has_count |-> FALSE, inserted_count |-> 0]

\* Faulty variant: a failed lookup drops the batch.
_deduplicate_messages_DropsOnFailure(messages, lookup) ==
    IF Len(messages) = 0 THEN [deduplicated |-> <<>>, duplicate_count |-> 0]
    ELSE IF lookup.raised # "none"
    THEN [deduplicated |-> <<>>, duplicate_count |-> Len(messages)]
    ELSE [deduplicated |->
              SelectSeq(messages, LAMBDA msg : msg.id \notin lookup.existing_ids),
          duplicate_count |->
              Len(messages)
              - Len(SelectSeq(messages, LAMBDA msg : msg.id \notin lookup.existing_ids))]

\* Faulty variant: the duplicates are counted as the ids the lookup returned.
_deduplicate_messages_CountsIds(messages, lookup) ==
    IF Len(messages) = 0 THEN [deduplicated |-> <<>>, duplicate_count |-> 0]
    ELSE IF lookup.raised # "none"
    THEN [deduplicated |-> messages, duplicate_count |-> 0]
    ELSE [deduplicated |->
              SelectSeq(messages, LAMBDA msg : msg.id \notin lookup.existing_ids),
          duplicate_count |-> Cardinality(lookup.existing_ids)]

\* _deduplicate_messages for a non-empty batch: the messages kept, the number
\* dropped.  A failure of the lookup is caught: every message is kept.
_deduplicate_messages(messages, lookup) ==
    IF Len(messages) = 0 THEN [deduplicated |-> <<>>, duplicate_count |-> 0]
    ELSE IF lookup.raised # "none"
    THEN [deduplicated |-> messages, duplicate_count |-> 0]
    ELSE LET deduplicated ==
                 SelectSeq(messages, LAMBDA msg : msg.id \notin lookup.existing_ids)
         IN [deduplicated |-> deduplicated,
             duplicate_count |-> Len(messages) - Len(deduplicated)]

\* Faulty variant: a failed request is logged and counted as no insert.
_insert_to_go_db_Swallows(messages, insert) ==
    IF Len(messages) = 0 THEN Return(0)
    ELSE IF insert.raised # "none" THEN Return(0)
    ELSE Return(IF insert.has_count THEN insert.inserted_count ELSE Len(messages))

\* Faulty variant: the number of submitted messages is returned whatever the
\* store reports.
_insert_to_go_db_CountsSubmitted(messages, insert) ==
    IF Len(messages) = 0 THEN Return(0)
    ELSE IF insert.raised # "none" THEN Raise(insert.raised)
    ELSE Return(Len(messages))

\* _insert_to_go_db for a non-empty list: the count the store reports, the
\* number of messages when it reports none; a failed request is raised again.
_insert_to_go_db(messages, insert) ==
    IF Len(messages) = 0 THEN Return(0)
    ELSE IF insert.raised # "none" THEN Raise(insert.raised)
    ELSE Return(IF insert.has_count THEN insert.inserted_count ELSE Len(messages))

SyncResult(success, messages_synced, messages_deduplicated, error_message, has_details) ==
    [success |-> success, messages_synced |-> messages_synced,
     messages_deduplicated |-> messages_deduplicated,
     error_message |-> error_message, has_details |-> has_details]

\* What the body of step 4 or step 5 does: it completes or it fails.
StepAnswers == {"ok", "fails"}

\* The answers of the two steps when neither is reached.
NoSteps == [checkpoint |-> "not called", clear |-> "not called"]

\* The body of _update_checkpoint / _clear_baileys_temp_db, inside their try.
StepBody(answer) == IF answer = "fails" THEN Raise("Exception") ELSE Return(None)

\* Faulty variant: the failure of the body leaves the method.
_update_checkpoint_Propagates(answer) == StepBody(answer)

\* _update_checkpoint: except Exception logs a warning and returns.
_update_checkpoint(answer) ==
    IF StepBody(answer).raised # "none" THEN Return(None) ELSE StepBody(answer)

\* _clear_baileys_temp_db: except Exception logs a warning and returns.
_clear_baileys_temp_db(answer) ==
    IF StepBody(answer).raised # "none" THEN Return(None) ELSE StepBody(answer)

\* Steps 2 to 5 of sync_messages, for a fetched batch that is not empty.
SyncSteps(fetch, lookup, insert, steps) ==
    LET dedup == _deduplicate_messages(fetch.messages, lookup)
        inserted == _insert_to_go_db(dedup.deduplicated, insert)
        checkpointed == _update_checkpoint(steps.checkpoint)
        cleared == _clear_baileys_temp_db(steps.clear)
    IN IF Len(dedup.deduplicated) = 0
       THEN [out |-> IF cleared.raised # "none" THEN cleared
                     ELSE Return(SyncResult(TRUE, 0, dedup.duplicate_count, None, FALSE)),
             total_synced |-> 0, total_deduplicated |-> dedup.duplicate_count,
             log |-> <<"fetch", "lookup", "clear">>, submitted |-> <<>>]
       ELSE IF inserted.raised # "none"
       THEN [out |-> inserted,
             total_synced |-> 0, total_deduplicated |-> dedup.duplicate_count,
             log |-> <<"fetch", "lookup", "insert">>,
             submitted |-> dedup.deduplicated]
       ELSE IF checkpointed.raised # "none"
       THEN [out |-> checkpointed,
             total_synced |-> inserted.value,
             total_deduplicated |-> dedup.duplicate_count,
             log |-> <<"fetch", "lookup", "insert", "checkpoint">>,
             submitted |-> dedup.deduplicated]
       ELSE [out |-> IF cleared.raised # "none" THEN cleared
                     ELSE Return(SyncResult(TRUE, inserted.value, dedup.duplicate_count,
                                            None, TRUE)),
             total_synced |-> inserted.value,
             total_deduplicated |-> dedup.duplicate_count,
             log |-> <<"fetch", "lookup", "insert", "checkpoint", "clear">>,
             submitted |-> dedup.deduplicated]

\* Faulty variant: an empty batch goes through the steps like any other.
TrySync_NoEmptyReturn(fetch, lookup, insert, steps) ==
    IF fetch.raised # "none"
    THEN [out |-> Raise(fetch.raised), total_synced |-> 0, total_deduplicated |-> 0,
          log |-> <<"fetch">>, submitted |-> <<>>]
    ELSE SyncSteps(fetch, lookup, insert, steps)

\* The try block of sync_messages: what it returns or the exception that
\* leaves it, the totals at that point, the steps taken and the messages
\* posted to the primary store.
TrySync(fetch, lookup, insert, steps) ==
    IF fetch.raised # "none"
    THEN [out |-> Raise(fetch.raised), total_synced |-> 0, total_deduplicated |-> 0,
          log |-> <<"fetch">>, submitted |-> <<>>]
    ELSE IF Len(fetch.messages) = 0
    THEN [out |-> Return(SyncResult(TRUE, 0, 0, None, FALSE)),
          total_synced |-> 0, total_deduplicated |-> 0,
          log |-> <<"fetch">>, submitted |-> <<>>]
    ELSE SyncSteps(fetch, lookup, insert, steps)

\* Faulty variant: no except clause around the steps.
CatchSync_Propagates(tried) == tried.out

\* except Exception as e: the failed SyncResult, with the totals reached.
CatchSync(tried) ==
    IF tried.out.raised = "none" THEN tried.out
    ELSE Return(SyncResult(FALSE, tried.total_synced, tried.total_deduplicated,
                           StrOf(tried.out.raised), FALSE))

sync_messages(fetch, lookup, insert, steps) ==
    LET tried == TrySync(fetch, lookup, insert, steps)
    IN [out |-> CatchSync(tried), log |-> tried.log, submitted |-> tried.submitted]

\* -------------------------------------------------------- SpecSync actions

NoSyncIn == [called |-> FALSE, fetch |-> [raised |-> "not called", messages |-> <<>>],
             lookup |-> NoLookup, insert |-> NoInsert, steps |-> NoSteps]

SyncIdle == ~sync_in.called

\* The lookup is reached when the fetch returned messages.
LookupAnswersAfter(fetch) ==
    IF fetch.raised = "none" /\ Len(fetch.messages) > 0 THEN LookupAnswers ELSE {NoLookup}

\* The insert is reached when deduplication left messages.
InsertAnswersAfter(fetch, lookup) ==
    LET kept == _deduplicate_messages(fetch.messages, lookup).deduplicated
    IN IF fetch.raised = "none" /\ Len(kept) > 0 THEN InsertAnswers(Len(kept))
       ELSE {NoInsert}

\* Step 5 is reached when no message is left to insert and after step 4;
\* step 4 is reached when the insert returned.
StepAnswersAfter(fetch, lookup, insert) ==
    IF fetch.raised # "none" \/ Len(fetch.messages) = 0 \/ insert.raised = "RequestException"
    THEN {NoSteps}
    ELSE IF insert = NoInsert
    THEN {[checkpoint |-> "not called", clear |-> c] : c \in StepAnswers}
    ELSE [checkpoint : StepAnswers, clear : StepAnswers]

SyncMessages ==
    /\ SyncIdle
    /\ \E fetch \in FetchAnswers :
       \E lookup \in LookupAnswersAfter(fetch) :
       \E insert \in InsertAnswersAfter(fetch, lookup) :
       \E steps \in StepAnswersAfter(fetch, lookup, insert) :
           \E r \in {sync_messages(fetch, lookup, insert, steps)} :
              /\ sync_in' = [called |-> TRUE, fetch |-> fetch, lookup |-> lookup,
                             insert |-> insert, steps |-> steps]
              /\ sync_log' = r.log
              /\ submitted' = r.submitted
              /\ sync_ret' = r.out
              /\ UNCHANGED <<healthVars, routerVars, restVars>>

\* The caller takes the SyncResult.
SyncReturn ==
    /\ ~SyncIdle
    /\ sync_in' = NoSyncIn
    /\ sync_log' = <<>>
    /\ submitted' = <<>>
    /\ sync_ret' = Return(None)
    /\ UNCHANGED <<healthVars, routerVars, restVars>>

\* ----------------------------------------------------------- specifications

InitHealthVars ==
    /\ monitor = InitMonitor
    /\ health_ret = NoHealthCall
    /\ streak = [b \in Backends |-> 0]

InitRouterVars ==
    /\ operation_strategies = InitStrategies
    /\ round_robin_counter = 0
    /\ rr_selections = 0
    /\ call = IdleCall
    /\ pc = "idle"
    /\ frame = NoFrame
    /\ probes = <<>>
    /\ call_log = <<>>
    /\ route_ret = NotReturned

InitSyncVars ==
    /\ sync_in = NoSyncIn
    /\ sync_log = <<>>
    /\ submitted = <<>>
    /\ sync_ret = Return(None)

\* The threads that call select_backend on the one Router.
Threads == {"t1", "t2"}

\* A thread outside select_backend.
IdleThread ==
    [pc |-> "idle", available_backends |-> <<>>, loaded |-> 0, idx |-> 0,
     ret |-> NotReturned]

InitRoundRobinVars == threads = [t \in Threads |-> IdleThread]

\* The chats of the secondary store.
ChatJids == {"chat1@g.us", "chat2@g.us", "chat3@g.us"}

\* What GET /chats/list can do: fail (the request or raise_for_status), or
\* answer with a list of chats, each holding its "jid".
ListingAnswers ==
    {[raised |-> "RequestException", chats |-> <<>>]}
    \cup {[raised |-> "none", chats |-> c] :
            c \in SeqsUpTo([jid : ChatJids], MaxChats)}

NoListing == [raised |-> "not called", chats |-> <<>>]

\* results = {}
NoResults == [j \in {} |-> None]

InitSyncAllVars ==
    /\ listing = NoListing
    /\ position = 0
    /\ results = NoResults
    /\ sync_calls = <<>>
    /\ all_pc = "idle"
    /\ all_ret = NotReturned

\* workflow_ret when no tool call is waiting for its result to be taken.
NoWorkflowCall == [op |-> "none", answers |-> None, out |-> Return(None), ops |-> <<>>]

InitWorkflowVars == workflow_ret = NoWorkflowCall

\* args_ret when no call is waiting for its result to be taken.
NoArgsCall ==
    [fn |-> "none", positional |-> <<>>, keywords |-> <<>>, args |-> <<>>,
     kwargs |-> <<>>, out |-> Return(None), invoked |-> <<>>]

InitArgsVars == args_ret = NoArgsCall

\* wait when no wait_for_backend is in progress.
IdleWait ==
    [pc |-> "idle", backend |-> None, timeout |-> 0, poll_interval |-> 1, elapsed |-> 0,
     tested |-> <<>>, found |-> <<>>, ret |-> NotReturned]

InitWaitVars == wait = IdleWait

\* A thread outside sync_messages.
IdleSyncer ==
    [pc |-> "idle", chat_jid |-> None, messages |-> <<>>, lookup |-> NoLookup,
     deduplicated |-> <<>>, submitted |-> <<>>, total_synced |-> 0,
     total_deduplicated |-> 0, cleared |-> FALSE, ret |-> NotReturned]

\* Both stores empty, no call in progress.
InitStoreVars ==
    stores = [secondary |-> [chat \in {"chat1@g.us", "chat2@g.us"} |-> <<>>],
              primary |-> [chat \in {"chat1@g.us", "chat2@g.us"} |-> {}],
              received |-> {},
              syncers |-> [t \in Threads |-> IdleSyncer]]

Init == InitHealthVars /\ InitRouterVars /\ InitSyncVars /\ InitRoundRobinVars
        /\ InitSyncAllVars /\ InitWorkflowVars /\ InitArgsVars
        /\ InitWaitVars /\ InitStoreVars

NextHealth ==
    \/ CheckGoHealth
    \/ CheckBaileysHealth
    \/ CheckAll
    \/ IsBackendAvailable
    \/ GetPreferredBackend
    \/ HealthReturn

SpecHealth == Init /\ [][NextHealth]_vars

NextRouter ==
    \/ SetStrategy
    \/ SelectBackend
    \/ IsOperationAvailable
    \/ RouteCall
    \/ RouteWithFallbackSelect
    \/ RouteWithFallbackPrimary
    \/ RouteWithFallbackCheck
    \/ RouteWithFallbackRetry
    \/ RouterReturn

SpecRouter == Init /\ [][NextRouter]_vars

NextSync ==
    \/ SyncMessages
    \/ SyncReturn

SpecSync == Init /\ [][NextSync]_vars

\* ------------------------------------------- SpecRoundRobin: one Router, threads

\* Faulty variant: the counter itself is the index.
RoundRobinIndex_NoModulo(counter, available_backends) == counter

\* idx = self.round_robin_counter % len(available_backends)
RoundRobinIndex(counter, available_backends) == counter % Len(available_backends)

\* available_backends[idx]: the element, or IndexError outside the list.
ListItem(list, idx) ==
    IF idx \in 0..(Len(list) - 1) THEN Return(list[idx + 1]) ELSE Raise("IndexError")

\* select_backend under ROUND_ROBIN up to the emptiness test: the thread takes
\* its own health snapshot and returns None when it lists no backend.
RoundRobinSnapshot(t) ==
    /\ threads[t].pc = "idle"
    /\ \E resps \in ProbeAnswers(None) :
       \E overall_health \in {check_all(monitor, resps[1], resps[2]).out.value} :
           threads' = [threads EXCEPT ![t] =
               [@ EXCEPT !.available_backends = overall_health.available_backends,
                         !.pc = IF Len(overall_health.available_backends) = 0
                                THEN "done" ELSE "load",
                         !.ret = IF Len(overall_health.available_backends) = 0
                                 THEN Return(None) ELSE NotReturned]]
    /\ UNCHANGED <<healthVars, routerVars, syncVars, syncAllVars, workflowVars,
                   argsVars, waitVars, storeVars>>

\* self.round_robin_counter += 1, first half: the counter is read.
RoundRobinLoad(t) ==
    /\ threads[t].pc = "load"
    /\ threads' = [threads EXCEPT ![t] =
           [@ EXCEPT !.loaded = round_robin_counter, !.pc = "store"]]
    /\ UNCHANGED <<healthVars, routerVars, syncVars, syncAllVars, workflowVars,
                   argsVars, waitVars, storeVars>>

\* Faulty variant: the value read, plus two, is written.
RoundRobinStore_PlusTwo(t) ==
    /\ threads[t].pc = "store"
    /\ threads[t].loaded + 2 <= MaxCounter
    /\ round_robin_counter' = threads[t].loaded + 2
    /\ threads' = [threads EXCEPT ![t] = [@ EXCEPT !.pc = "index"]]
    /\ UNCHANGED <<healthVars, operation_strategies, rr_selections, call, pc, frame, probes,
                   call_log, route_ret, syncVars, syncAllVars,
                   workflowVars, argsVars, waitVars, storeVars>>

\* self.round_robin_counter += 1, second half: the value read, plus one, is
\* written, whatever the counter holds by now.
RoundRobinStore(t) ==
    /\ threads[t].pc = "store"
    /\ threads[t].loaded + 1 <= MaxCounter
    /\ round_robin_counter' = threads[t].loaded + 1
    /\ threads' = [threads EXCEPT ![t] = [@ EXCEPT !.pc = "index"]]
    /\ UNCHANGED <<healthVars, operation_strategies, rr_selections, call, pc, frame, probes,
                   call_log, route_ret, syncVars, syncAllVars,
                   workflowVars, argsVars, waitVars, storeVars>>

\* idx = self.round_robin_counter % len(available_backends);
\* return available_backends[idx]: the counter is read again.
RoundRobinIndexStep(t) ==
    /\ threads[t].pc = "index"
    /\ \E idx \in {RoundRobinIndex(round_robin_counter, threads[t].available_backends)} :
           threads' = [threads EXCEPT ![t] =
               [@ EXCEPT !.idx = idx,
                         !.ret = ListItem(threads[t].available_backends, idx),
                         !.pc = "done"]]
    /\ UNCHANGED <<healthVars, routerVars, syncVars, syncAllVars, workflowVars,
                   argsVars, waitVars, storeVars>>

\* The caller of thread t takes the result.
RoundRobinReturn(t) ==
    /\ threads[t].pc = "done"
    /\ threads' = [threads EXCEPT ![t] = IdleThread]
    /\ UNCHANGED <<healthVars, routerVars, syncVars, syncAllVars, workflowVars,
                   argsVars, waitVars, storeVars>>

NextRoundRobin ==
    \E t \in Threads :
        \/ RoundRobinSnapshot(t)
        \/ RoundRobinLoad(t)
        \/ RoundRobinStore(t)
        \/ RoundRobinIndexStep(t)
        \/ RoundRobinReturn(t)

SpecRoundRobin == Init /\ [][NextRoundRobin]_vars

\* ------------------------------------------------- SpecSyncAll: sync_all_chats

\* What the stores answer to the sync_messages call of one chat, in the
\* model: the fetch fails; there is nothing to fetch; one message is fetched
\* and inserted; one message is fetched and the insert fails.
ChatSyncAnswers ==
    LET one == <<[id |-> "msg-001", timestamp |-> 1]>>
        found == [raised |-> "none", existing_ids |-> {}]
    IN {[fetch |-> [raised |-> "RequestException", messages |-> <<>>],
         lookup |-> NoLookup, insert |-> NoInsert, steps |-> NoSteps],
        [fetch |-> [raised |-> "none", messages |-> <<>>],
         lookup |-> NoLookup, insert |-> NoInsert, steps |-> NoSteps],
        [fetch |-> [raised |-> "none", messages |-> one], lookup |-> found,
         insert |-> [raised |-> "none", has_count |-> FALSE, inserted_count |-> 0],
         steps |-> [checkpoint |-> "ok", clear |-> "ok"]],
        [fetch |-> [raised |-> "none", messages |-> one], lookup |-> found,
         insert |-> [raised |-> "RequestException", has_count |-> FALSE,
                     inserted_count |-> 0],
         steps |-> NoSteps]}

\* results[chat_jid] = result
Store(dict, key, value) ==
    [k \in DOMAIN dict \cup {key} |-> IF k = key THEN value ELSE dict[k]]

\* sync_all_chats up to the loop: the listing is requested; a failure is
\* caught by the except clause, which returns the empty results.
SyncAllList ==
    /\ all_pc = "idle"
    /\ \E answer \in ListingAnswers :
           /\ listing' = answer
           /\ IF answer.raised # "none" \/ Len(answer.chats) = 0
              THEN all_pc' = "done" /\ all_ret' = Return(NoResults)
              ELSE all_pc' = "loop" /\ all_ret' = NotReturned
    /\ position' = 0
    /\ results' = NoResults
    /\ sync_calls' = <<>>
    /\ UNCHANGED <<healthVars, routerVars, syncVars, roundRobinVars,
                   workflowVars, argsVars, waitVars, storeVars>>

\* One turn of the loop: sync_messages for the next chat and its result
\* stored; an exception leaving sync_messages would be caught by the except
\* clause around the loop, which returns the results so far.
SyncAllChat ==
    /\ all_pc = "loop"
    /\ \E answers \in ChatSyncAnswers :
       \E chat_jid \in {listing.chats[position + 1].jid} :
       \E result \in {sync_messages(answers.fetch, answers.lookup, answers.insert,
                                    answers.steps).out} :
           /\ sync_calls' = Append(sync_calls, chat_jid)
           /\ position' = position + 1
           /\ IF result.raised # "none"
              THEN /\ results' = results
                   /\ all_pc' = "done"
                   /\ all_ret' = Return(results)
              ELSE /\ results' = Store(results, chat_jid, result.value)
                   /\ IF position + 1 = Len(listing.chats)
                      THEN /\ all_pc' = "done"
                           /\ all_ret' = Return(Store(results, chat_jid, result.value))
                      ELSE /\ all_pc' = "loop"
                           /\ all_ret' = NotReturned
    /\ UNCHANGED <<listing, healthVars, routerVars, syncVars, roundRobinVars,
                   workflowVars, argsVars, waitVars, storeVars>>

\* The caller takes the results.
SyncAllReturn ==
    /\ all_pc = "done"
    /\ listing' = NoListing
    /\ position' = 0
    /\ results' = NoResults
    /\ sync_calls' = <<>>
    /\ all_pc' = "idle"
    /\ all_ret' = NotReturned
    /\ UNCHANGED <<healthVars, routerVars, syncVars, roundRobinVars,
                   workflowVars, argsVars, waitVars, storeVars>>

NextSyncAll ==
    \/ SyncAllList
    \/ SyncAllChat
    \/ SyncAllReturn

SpecSyncAll == Init /\ [][NextSyncAll]_vars

\* ---------------------- SpecWorkflow: mark_community_as_read_with_history

\* Faulty variant: a missing key reads as None.
GetItem_OrNone(dict, key) ==
    IF key \in DOMAIN dict THEN Return(dict[key]) ELSE Return(None)

\* dict[key]: the value, or KeyError when dict has no such key.
GetItem(dict, key) ==
    IF key \in DOMAIN dict THEN Return(dict[key]) ELSE Raise("KeyError")

\* What get_sync_status gives: the three flags the tools read with .get; its
\* answer after a failed request has connected and is_syncing false.
SyncStatuses == [connected : BOOLEAN, is_syncing : BOOLEAN, is_latest : BOOLEAN]

\* backend_status: health_check of both bridges and the sync status.
backend_status(go_healthy, baileys_healthy, status) ==
    [go_bridge |-> [healthy |-> go_healthy],
     baileys_bridge |-> [healthy |-> baileys_healthy,
                         connected |-> status.connected,
                         syncing |-> status.is_syncing],
     overall_status |-> IF go_healthy /\ baileys_healthy THEN "healthy" ELSE "degraded"]

\* retrieve_full_history(wait_for_completion=True): waited is what
\* wait_for_sync_completion returned, final_status the status read after it.
retrieve_full_history(status, waited, final_status) ==
    IF ~status.connected
    THEN [success |-> FALSE, message |-> "Baileys bridge not connected to WhatsApp",
          status |-> status]
    ELSE IF status.is_syncing
    THEN [success |-> TRUE, message |-> "History sync already in progress",
          status |-> status]
    ELSE IF status.is_latest
    THEN [success |-> TRUE, message |-> "History sync already complete",
          status |-> status]
    ELSE IF waited
    THEN [success |-> TRUE, message |-> "History sync complete!",
          status |-> final_status]
    ELSE [success |-> FALSE, message |-> "History sync timed out or failed",
          status |-> final_status]

\* The sum of counts[j] over the chats j of jids.
RECURSIVE Total(_, _)
Total(counts, jids) ==
    IF jids = {} THEN 0
    ELSE LET j == CHOOSE k \in jids : TRUE
         IN counts[j] + Total(counts, jids \ {j})

\* Faulty variant: a run that synced no chat is reported as failed.
sync_history_to_database_FailsWhenEmpty(chat_results) ==
    LET failed_chats == Cardinality({j \in DOMAIN chat_results : ~chat_results[j].success})
    IN [success |-> failed_chats = 0 /\ Cardinality(DOMAIN chat_results) > 0,
        messages_added |->
            Total([j \in DOMAIN chat_results |->
                      IF chat_results[j].success
                      THEN chat_results[j].messages_synced ELSE 0],
                  DOMAIN chat_results),
        messages_deduplicated |->
            Total([j \in DOMAIN chat_results |->
                      IF chat_results[j].success
                      THEN chat_results[j].messages_deduplicated ELSE 0],
                  DOMAIN chat_results),
        chats_synced |-> Cardinality(DOMAIN chat_results),
        chats_failed |-> failed_chats,
        message |-> IF failed_chats = 0 THEN "Synced" ELSE "Partial sync"]

\* Faulty variant: the dict holds "messages_skipped" as well.
sync_history_to_database_WithSkipped(chat_results) ==
    LET failed_chats == Cardinality({j \in DOMAIN chat_results : ~chat_results[j].success})
    IN [success |-> failed_chats = 0,
        messages_added |->
            Total([j \in DOMAIN chat_results |->
                      IF chat_results[j].success
                      THEN chat_results[j].messages_synced ELSE 0],
                  DOMAIN chat_results),
        messages_deduplicated |->
            Total([j \in DOMAIN chat_results |->
                      IF chat_results[j].success
                      THEN chat_results[j].messages_deduplicated ELSE 0],
                  DOMAIN chat_results),
        messages_skipped |-> 0,
        chats_synced |-> Cardinality(DOMAIN chat_results),
        chats_failed |-> failed_chats,
        message |-> IF failed_chats = 0 THEN "Synced" ELSE "Partial sync"]

\* sync_history_to_database: the results of sync_all_chats, aggregated into
\* the dict it returns.
sync_history_to_database(chat_results) ==
    LET failed_chats == Cardinality({j \in DOMAIN chat_results : ~chat_results[j].success})
        total_chats == Cardinality(DOMAIN chat_results)
    IN [success |-> failed_chats = 0,
        messages_added |->
            Total([j \in DOMAIN chat_results |->
                      IF chat_results[j].success
                      THEN chat_results[j].messages_synced ELSE 0],
                  DOMAIN chat_results),
        messages_deduplicated |->
            Total([j \in DOMAIN chat_results |->
                      IF chat_results[j].success
                      THEN chat_results[j].messages_deduplicated ELSE 0],
                  DOMAIN chat_results),
        chats_synced |-> total_chats,
        chats_failed |-> failed_chats,
        message |-> IF failed_chats = 0 THEN "Synced" ELSE "Partial sync"]

\* What whatsapp_mark_community_as_read answers: (success, message, details).
MarkAnswers ==
    {<<TRUE, "Marked messages as read", [groups_processed |-> 1]>>,
     <<FALSE, "Go backend connection error", [groups_processed |-> 0]>>}

\* mark_community_as_read: the tuple as a dict.
mark_community_as_read(answer) ==
    [success |-> answer[1], message |-> answer[2], details |-> answer[3]]

\* What sync_all_chats can have returned for up to two chats: one message
\* synced, or the fetch failed.
WorkflowChatResults ==
    LET synced == SyncResult(TRUE, 1, 0, None, TRUE)
        failed == SyncResult(FALSE, 0, 0, "RequestException", FALSE)
    IN UNION {[jids -> {synced, failed}] : jids \in SUBSET {"chat1@g.us", "chat2@g.us"}}

\* What the bridges answer during one run of the workflow.
WorkflowAnswers ==
    [go_healthy : BOOLEAN, baileys_healthy : BOOLEAN, status : SyncStatuses,
     waited : BOOLEAN, final_status : {s \in SyncStatuses : s.connected},
     chat_results : WorkflowChatResults, mark : MarkAnswers, cleared : BOOLEAN]

\* result["steps"].append({"step": ..., "status": ...}); the mark of the
\* status text is kept apart from the text.
AddStep(result, step, mark, text) ==
    [result EXCEPT !.steps = Append(@, [step |-> step, mark |-> mark, text |-> text])]

\* Step 5 and the final result: cleanup, then success is that of mark_as_read.
Cleanup(result, ops, mark_result, cleared) ==
    [out |-> Return(Store(Store(
                 IF cleared
                 THEN AddStep(result, "cleanup", "ok", "Temp data cleared")
                 ELSE AddStep(result, "cleanup", "warning", "Failed to clear temp data"),
                 "success", mark_result.success),
                 "message", <<"Complete!", mark_result.message>>)),
     ops |-> Append(ops, "clear_temp_data")]

\* Step 4: the community is marked as read; its outcome is only recorded.
MarkAsRead(result, ops, mark_result, cleared) ==
    Cleanup(Store(AddStep(result, "mark_as_read",
                          IF mark_result.success THEN "ok" ELSE "failed",
                          mark_result.message),
                  "mark_as_read_details", mark_result.details),
            Append(ops, "mark_community_as_read"), mark_result, cleared)

\* Step 3: the database sync; a failure returns, a success reads
\* sync_result["messages_added"] and sync_result["messages_skipped"].
DatabaseSync(result, ops, sync_result, answers) ==
    IF ~sync_result.success
    THEN [out |-> Return(Store(Store(
                      AddStep(result, "database_sync", "failed", sync_result.message),
                      "success", FALSE),
                      "message", <<"Database sync failed", sync_result.message>>)),
          ops |-> Append(ops, "sync_history_to_database")]
    ELSE IF GetItem(sync_result, "messages_added").raised # "none"
    THEN [out |-> GetItem(sync_result, "messages_added"),
          ops |-> Append(ops, "sync_history_to_database")]
    ELSE IF GetItem(sync_result, "messages_skipped").raised # "none"
    THEN [out |-> GetItem(sync_result, "messages_skipped"),
          ops |-> Append(ops, "sync_history_to_database")]
    ELSE MarkAsRead(AddStep(result, "database_sync", "ok", "new messages"),
                    Append(ops, "sync_history_to_database"),
                    mark_community_as_read(answers.mark), answers.cleared)

\* Step 2: the history sync; a failure returns.
HistorySync(result, ops, history_result, answers) ==
    IF ~history_result.success
    THEN [out |-> Return(Store(Store(
                      AddStep(result, "history_sync", "failed", history_result.message),
                      "success", FALSE),
                      "message", <<"History sync failed", history_result.message>>)),
          ops |-> Append(ops, "retrieve_full_history")]
    ELSE DatabaseSync(AddStep(result, "history_sync", "ok", "messages retrieved"),
                      Append(ops, "retrieve_full_history"),
                      sync_history_to_database(answers.chat_results), answers)

\* mark_community_as_read_with_history: step 1, the health check, returns at
\* once unless both bridges are healthy; then the steps 2 to 5.
mark_community_as_read_with_history(community_jid, answers) ==
    LET HealthCheck(status) ==
            IF status.overall_status # "healthy"
            THEN [out |-> Return([success |-> FALSE,
                                  message |-> "One or more backends are not healthy",
                                  backend_status |-> status]),
                  ops |-> <<"backend_status">>]
            ELSE HistorySync(AddStep([community_jid |-> community_jid, steps |-> <<>>],
                                     "health_check", "ok", "Both backends healthy"),
                             <<"backend_status">>,
                             retrieve_full_history(answers.status, answers.waited,
                                                   answers.final_status),
                             answers)
    IN HealthCheck(backend_status(answers.go_healthy, answers.baileys_healthy,
                                  answers.status))

\* The status polls of a wait_for_sync_completion in the model, and the
\* number of polls its timeout leaves room for.
StatusPolls == [1..2 -> SyncStatuses]
PollBudgets == 0..2

\* if is_latest and not is_syncing: the poll that ends the wait with True.
SyncComplete(status) == status.is_latest /\ ~status.is_syncing

\* Faulty variant: is_latest alone ends the wait.
SyncCompleteSeen_LatestOnly(status) == status.is_latest

\* The test of the loop of wait_for_sync_completion on one polled status.
SyncCompleteSeen(status) == SyncComplete(status)

\* wait_for_sync_completion from poll i on: False when the timeout is reached
\* or the bridge is not connected, True at the first poll that shows the sync
\* complete.
RECURSIVE wait_for_sync_completion(_, _, _)
wait_for_sync_completion(polls, i, budget) ==
    IF i > budget THEN FALSE
    ELSE IF ~polls[i].connected THEN FALSE
    ELSE IF SyncCompleteSeen(polls[i]) THEN TRUE
    ELSE wait_for_sync_completion(polls, i + 1, budget)

\* No tool call is waiting for its result to be taken.
WorkflowIdle == workflow_ret.op = "none"

\* The tool backend_status, called on its own.
BackendStatus ==
    /\ WorkflowIdle
    /\ \E go_healthy \in BOOLEAN, baileys_healthy \in BOOLEAN, status \in SyncStatuses :
           workflow_ret' =
               [op |-> "backend_status",
                answers |-> [go_healthy |-> go_healthy,
                             baileys_healthy |-> baileys_healthy, status |-> status],
                out |-> Return(backend_status(go_healthy, baileys_healthy, status)),
                ops |-> <<>>]
    /\ UNCHANGED <<healthVars, routerVars, syncVars, roundRobinVars, syncAllVars,
                   argsVars, waitVars, storeVars>>

\* The tool retrieve_full_history, called on its own.
RetrieveFullHistory ==
    /\ WorkflowIdle
    /\ \E status \in SyncStatuses, waited \in BOOLEAN,
          final_status \in {s \in SyncStatuses : s.connected} :
           workflow_ret' =
               [op |-> "retrieve_full_history",
                answers |-> [status |-> status, waited |-> waited,
                             final_status |-> final_status],
                out |-> Return(retrieve_full_history(status, waited, final_status)),
                ops |-> <<>>]
    /\ UNCHANGED <<healthVars, routerVars, syncVars, roundRobinVars, syncAllVars,
                   argsVars, waitVars, storeVars>>

\* The tool sync_history_to_database, called on its own.
SyncHistoryToDatabase ==
    /\ WorkflowIdle
    /\ \E chat_results \in WorkflowChatResults :
           workflow_ret' =
               [op |-> "sync_history_to_database",
                answers |-> [chat_results |-> chat_results],
                out |-> Return(sync_history_to_database(chat_results)),
                ops |-> <<>>]
    /\ UNCHANGED <<healthVars, routerVars, syncVars, roundRobinVars, syncAllVars,
                   argsVars, waitVars, storeVars>>

\* The tool mark_community_as_read_with_history.
MarkCommunityAsReadWithHistory ==
    /\ WorkflowIdle
    /\ \E answers \in WorkflowAnswers :
       \E r \in {mark_community_as_read_with_history("120363143634035041@g.us", answers)} :
           workflow_ret' =
               [op |-> "mark_community_as_read_with_history",
                answers |-> answers, out |-> r.out, ops |-> r.ops]
    /\ UNCHANGED <<healthVars, routerVars, syncVars, roundRobinVars, syncAllVars,
                   argsVars, waitVars, storeVars>>

\* baileys_client.wait_for_sync_completion, called on its own.
WaitForSyncCompletion ==
    /\ WorkflowIdle
    /\ \E polls \in StatusPolls, budget \in PollBudgets :
           workflow_ret' =
               [op |-> "wait_for_sync_completion",
                answers |-> [polls |-> polls, budget |-> budget],
                out |-> Return(wait_for_sync_completion(polls, 1, budget)),
                ops |-> <<>>]
    /\ UNCHANGED <<healthVars, routerVars, syncVars, roundRobinVars, syncAllVars,
                   argsVars, waitVars, storeVars>>

\* The caller takes the result.
WorkflowReturn ==
    /\ ~WorkflowIdle
    /\ workflow_ret' = NoWorkflowCall
    /\ UNCHANGED <<healthVars, routerVars, syncVars, roundRobinVars, syncAllVars,
                   argsVars, waitVars, storeVars>>

NextWorkflow ==
    \/ BackendStatus
    \/ RetrieveFullHistory
    \/ SyncHistoryToDatabase
    \/ MarkCommunityAsReadWithHistory
    \/ WaitForSyncCompletion
    \/ WorkflowReturn

SpecWorkflow == Init /\ [][NextWorkflow]_vars

\* ------------------- SpecRouterArgs: the arguments of the routed function

\* The parameters of route_call and of route_with_fallback that precede *args;
\* the first two of each have no default.
RouteCallParams == <<"operation", "go_func", "baileys_func", "required_backend">>
RouteWithFallbackParams == <<"operation", "go_func", "baileys_func">>

\* No keyword arguments.
NoKeywords == [k \in {} |-> None]

\* keywords without the names of names.
Without(keywords, names) == [k \in DOMAIN keywords \ names |-> keywords[k]]

\* How Python binds the positional and keyword arguments of a call to a
\* function def f(params, *args, **kwargs) whose first two parameters have no
\* default and whose others default to None: TypeError when a parameter gets
\* a positional and a keyword value, or when one without default gets none.
Bind(params, positional, keywords) ==
    LET names == {params[i] : i \in 1..Len(params)}
        filled == {i \in 1..Len(params) : i <= Len(positional)}
        ValueOf(i) == IF i \in filled THEN positional[i]
                      ELSE IF params[i] \in DOMAIN keywords THEN keywords[params[i]]
                      ELSE None
    IN IF \E i \in filled : params[i] \in DOMAIN keywords
       THEN Raise("TypeError")
       ELSE IF \E i \in 1..2 : i \notin filled /\ params[i] \notin DOMAIN keywords
       THEN Raise("TypeError")
       ELSE Return([named |-> [n \in names |->
                                  ValueOf(CHOOSE i \in 1..Len(params) : params[i] = n)],
                    args |-> SubSeq(positional, Len(params) + 1, Len(positional)),
                    kwargs |-> Without(keywords, names)])

\* f(*positional, name=value, **keywords): the keyword arguments of the call,
\* TypeError when keywords holds name as well.
WithKeyword(keywords, name, value) ==
    IF name \in DOMAIN keywords THEN Raise("TypeError")
    ELSE Return(Store(keywords, name, value))

\* What the health endpoints answer in this specification: healthy, or the
\* connection is refused.
ArgsResponses == {r \in RouterResponses : r.kind = "ConnectionError" \/ r.body.status = Absent}

\* The invocations go_func(*args, **kwargs) / baileys_func(*args, **kwargs)
\* of one route_call.
Invocations(backends, args, kwargs) ==
    [i \in 1..Len(backends) |-> [backend |-> backends[i], args |-> args, kwargs |-> kwargs]]

\* route_call(*positional, **keywords): the arguments are bound, and the body
\* runs with them; resps are the answers to the probes of select_backend.  A
\* required_backend that names no backend is not available.
route_call_with(positional, keywords, resps) ==
    LET Body(b) ==
            IF b.named.required_backend \notin Backends \cup {None}
            THEN [out |-> Return(<<FALSE, "No backend available">>), invoked |-> <<>>]
            ELSE LET Routed(r) ==
                         [out |-> r.out,
                          invoked |-> Invocations(r.invoked, b.args, b.kwargs)]
                 IN Routed(route_call(operation_strategies, round_robin_counter,
                                      b.named.operation, b.named.go_func,
                                      b.named.baileys_func, b.named.required_backend,
                                      monitor, resps))
    IN IF Bind(RouteCallParams, positional, keywords).raised # "none"
       THEN [out |-> Bind(RouteCallParams, positional, keywords), invoked |-> <<>>]
       ELSE Body(Bind(RouteCallParams, positional, keywords).value)

\* self.route_call(operation, go_func, baileys_func,
\*                 required_backend=backend, *args, **kwargs)
PinnedCall(b, backend, resps) ==
    IF WithKeyword(b.kwargs, "required_backend", backend).raised # "none"
    THEN [out |-> WithKeyword(b.kwargs, "required_backend", backend), invoked |-> <<>>]
    ELSE route_call_with(
             <<b.named.operation, b.named.go_func, b.named.baileys_func>> \o b.args,
             WithKeyword(b.kwargs, "required_backend", backend).value, resps)

\* route_with_fallback(*positional, **keywords).  resps are the answers to
\* the probes, in order: two for the selection of the primary backend, one for
\* the pinned call, two for check_all, one for the call pinned to the fallback.
\* Nothing in route_with_fallback catches.
route_with_fallback_with(positional, keywords, resps) ==
    LET Retry(b, primary_backend, first, fallback_backend) ==
            IF fallback_backend = None
            THEN [out |-> Return(<<FALSE, first.out.value[2]>>), invoked |-> first.invoked]
            ELSE LET Second(r) == [out |-> r.out, invoked |-> first.invoked \o r.invoked]
                 IN Second(PinnedCall(b, fallback_backend, <<resps[6]>>))
        Primary(b, primary_backend, first) ==
            IF first.out.raised # "none" THEN first
            ELSE IF first.out.value[1] THEN first
            ELSE Retry(b, primary_backend, first,
                       FallbackOf(check_all(monitor, resps[4], resps[5])
                                      .out.value.available_backends,
                                  primary_backend))
        Body(b, primary_backend) ==
            IF primary_backend = None
            THEN [out |-> Return(<<FALSE, "No backend available">>), invoked |-> <<>>]
            ELSE Primary(b, primary_backend, PinnedCall(b, primary_backend, <<resps[3]>>))
    IN IF Bind(RouteWithFallbackParams, positional, keywords).raised # "none"
       THEN [out |-> Bind(RouteWithFallbackParams, positional, keywords),
             invoked |-> <<>>]
       ELSE Body(Bind(RouteWithFallbackParams, positional, keywords).value,
                 select_backend(operation_strategies, round_robin_counter,
                                Bind(RouteWithFallbackParams, positional, keywords)
                                    .value.named.operation,
                                None, monitor, <<resps[1], resps[2]>>).backend)

\* The arguments callers put after baileys_func in a route_call: nothing, a
\* required_backend, one positional argument for the function after a
\* required_backend, or in its place.
RouteCallTails ==
    {<<>>, <<None>>, <<"baileys">>, <<None, "hello">>, <<"go", "hello">>, <<"hello">>}

\* The arguments callers put after baileys_func in a route_with_fallback.
RouteWithFallbackTails == {<<>>, <<"hello">>}

\* The keyword arguments callers pass for the function.
FunctionKeywords == {NoKeywords, [text |-> "hi"]}

\* No call is waiting for its result to be taken.
ArgsIdle == args_ret.fn = "none"

\* What a finished call leaves in args_ret: the call, the *args and **kwargs
\* it was bound to, its outcome and the invocations of the functions.
ArgsFinished(fn, positional, keywords, b, r) ==
    [fn |-> fn, positional |-> positional, keywords |-> keywords,
     args |-> b.args, kwargs |-> b.kwargs, out |-> r.out, invoked |-> r.invoked]

\* router.route_call(operation, go_func, baileys_func, ...), a call the
\* signature accepts.
RouteCallWithArgs ==
    /\ ArgsIdle
    /\ \E go_func \in FuncBehaviours, baileys_func \in FuncBehaviours \cup {None},
          tail \in RouteCallTails, keywords \in FunctionKeywords,
          resps \in [1..2 -> ArgsResponses] :
       \E positional \in {<<"send_message", go_func, baileys_func>> \o tail} :
       \E b \in {Bind(RouteCallParams, positional, keywords)} :
           /\ b.raised = "none"
           /\ args_ret' = ArgsFinished("route_call", positional, keywords, b.value,
                              route_call_with(positional, keywords,
                                  IF b.value.named.required_backend = None
                                  THEN resps ELSE <<resps[1]>>))
    /\ UNCHANGED <<healthVars, routerVars, syncVars, roundRobinVars, syncAllVars,
                   workflowVars, waitVars, storeVars>>

\* router.route_with_fallback(operation, go_func, baileys_func, ...), a call
\* the signature accepts.
RouteWithFallbackWithArgs ==
    /\ ArgsIdle
    /\ \E go_func \in FuncBehaviours, baileys_func \in FuncBehaviours \cup {None},
          tail \in RouteWithFallbackTails, keywords \in FunctionKeywords,
          resps \in [1..6 -> ArgsResponses] :
       \E positional \in {<<"send_message", go_func, baileys_func>> \o tail} :
       \E b \in {Bind(RouteWithFallbackParams, positional, keywords)} :
           /\ b.raised = "none"
           /\ args_ret' = ArgsFinished("route_with_fallback", positional, keywords,
                              b.value,
                              route_with_fallback_with(positional, keywords, resps))
    /\ UNCHANGED <<healthVars, routerVars, syncVars, roundRobinVars, syncAllVars,
                   workflowVars, waitVars, storeVars>>

\* The caller takes the result.
ArgsReturn ==
    /\ ~ArgsIdle
    /\ args_ret' = NoArgsCall
    /\ UNCHANGED <<healthVars, routerVars, syncVars, roundRobinVars, syncAllVars,
                   workflowVars, waitVars, storeVars>>

NextRouterArgs ==
    \/ RouteCallWithArgs
    \/ RouteWithFallbackWithArgs
    \/ ArgsReturn

SpecRouterArgs == Init /\ [][NextRouterArgs]_vars

\* ------------------------------------------- SpecWait: wait_for_backend

\* The backend names callers wait for: the two backends and a name that is
\* neither.
WaitBackends == Backends \cup {"other"}

\* The timeouts and poll intervals of the model, in seconds.
Timeouts == 0..MaxTimeout
PollIntervals == {1, 2}

\* The seconds a probe takes, rounded down.
ProbeSeconds == {0, 1}

\* is_backend_available(backend) as wait_for_backend sees it: False without a
\* probe for a name that is no backend.
AvailableNow(m, backend, resp) ==
    IF backend \in Backends THEN is_backend_available(m, backend, resp).out.value
    ELSE FALSE

\* time.sleep(poll_interval)
AfterSleep(elapsed, poll_interval) == elapsed + poll_interval

\* Faulty variant: the wait reports success whatever the probe found.
ProbeOutcome_AlwaysTrue(available) == TRUE

\* if self.is_backend_available(backend): return True
ProbeOutcome(available) == available

\* wait_for_backend(backend, timeout, poll_interval) is called.
WaitStart ==
    /\ wait.pc = "idle"
    /\ \E backend \in WaitBackends, timeout \in Timeouts, poll_interval \in PollIntervals :
           wait' = [pc |-> "loop", backend |-> backend, timeout |-> timeout,
                    poll_interval |-> poll_interval, elapsed |-> 0, tested |-> <<>>,
                    found |-> <<>>, ret |-> NotReturned]
    /\ UNCHANGED <<healthVars, routerVars, syncVars, roundRobinVars, syncAllVars,
                   workflowVars, argsVars, storeVars>>

\* while time.time() - start_time < timeout: the test, and the return False
\* after the loop; tested keeps the elapsed time of every test.
WaitTest ==
    /\ wait.pc = "loop"
    /\ wait' = [wait EXCEPT
                   !.tested = Append(@, wait.elapsed),
                   !.pc = IF wait.elapsed < wait.timeout THEN "probe" ELSE "done",
                   !.ret = IF wait.elapsed < wait.timeout THEN @ ELSE Return(FALSE)]
    /\ UNCHANGED <<healthVars, routerVars, syncVars, roundRobinVars, syncAllVars,
                   workflowVars, argsVars, storeVars>>

\* The body of the loop: the probe, which takes its time, then the return
\* True or the sleep; found keeps what every probe found.
WaitProbe ==
    /\ wait.pc = "probe"
    /\ \E resp \in Responses, seconds \in ProbeSeconds :
       \E available \in {AvailableNow(monitor, wait.backend, resp)} :
           wait' = [wait EXCEPT
                       !.found = Append(@, available),
                       !.elapsed = IF ProbeOutcome(available) THEN @ + seconds
                                   ELSE AfterSleep(@ + seconds, wait.poll_interval),
                       !.pc = IF ProbeOutcome(available) THEN "done" ELSE "loop",
                       !.ret = IF ProbeOutcome(available) THEN Return(TRUE) ELSE @]
    /\ UNCHANGED <<healthVars, routerVars, syncVars, roundRobinVars, syncAllVars,
                   workflowVars, argsVars, storeVars>>

\* The caller takes the result.
WaitReturn ==
    /\ wait.pc = "done"
    /\ wait' = IdleWait
    /\ UNCHANGED <<healthVars, routerVars, syncVars, roundRobinVars, syncAllVars,
                   workflowVars, argsVars, storeVars>>

NextWait ==
    \/ WaitStart
    \/ WaitTest
    \/ WaitProbe
    \/ WaitReturn

SpecWait == Init /\ [][NextWait]_vars

\* The thread that waits keeps running: a step of the wait that can be taken
\* is taken.
SpecWaitLive == SpecWait /\ WF_vars(WaitTest) /\ WF_vars(WaitProbe)

\* ------------------------------------- SpecRoutingInfo: get_routing_info

\* Faulty variant: the table of Router.__init__ is reported.
RoutingStrategiesOf_Initial(table) == InitStrategies

\* {op.value: strategy.value for op, strategy in ...items()}: the table, key
\* by key.
RoutingStrategiesOf(table) == [op \in DOMAIN table |-> table[op]]

\* One entry of "backend_health".
HealthEntry(health) ==
    [status |-> health.status, response_time_ms |-> health.response_time_ms]

\* get_routing_info: check_all, and the dictionary built from its result and
\* the strategy table.
get_routing_info(table, m, go_resp, baileys_resp) ==
    LET Info(r) ==
            IF r.out.raised # "none" THEN r
            ELSE [out |-> Return(
                     [primary_backend |-> r.out.value.primary_backend,
                      available_backends |-> r.out.value.available_backends,
                      routing_strategies |-> RoutingStrategiesOf(table),
                      backend_health |->
                          [go |-> HealthEntry(r.out.value.go_backend),
                           baileys |-> HealthEntry(r.out.value.baileys_backend)]]),
                  m |-> r.m]
    IN Info(check_all(m, go_resp, baileys_resp))

GetRoutingInfo ==
    /\ RouterIdle
    /\ HealthIdle
    /\ \E go_resp \in RouterResponses, baileys_resp \in RouterResponses :
       \E r \in {get_routing_info(operation_strategies, monitor, go_resp, baileys_resp)} :
           /\ WithinFailures(r.m)
           /\ monitor' = r.m
           /\ health_ret' = Finished("get_routing_info", None,
                                     <<go_resp, baileys_resp>>, r.out)
           /\ streak' = StreakAfter(StreakAfter(streak, "go", go_resp),
                                    "baileys", baileys_resp)
           /\ UNCHANGED <<routerVars, syncVars, restVars>>

NextRoutingInfo ==
    \/ SetStrategy
    \/ (HealthIdle /\ SelectBackend)
    \/ RouterReturn
    \/ GetRoutingInfo
    \/ HealthReturn

SpecRoutingInfo == Init /\ [][NextRoutingInfo]_vars

\* ----------------- SpecStores: sync_messages, step by step, on the two stores

\* The chats of the two stores in this specification.
StoreChats == {"chat1@g.us", "chat2@g.us"}

\* The message with this id, as the secondary store returns it.
MessageOf(id) == [id |-> id, timestamp |-> 1]

\* The ids of the messages of a batch.
IdsOf(messages) == {messages[i].id : i \in 1..Len(messages)}

\* The Baileys bridge keeps a message of the history of chat in its temp store.
StoreReceive ==
    /\ \E chat \in StoreChats, id \in MessageIds \ stores.received :
           stores' = [stores EXCEPT
               !.secondary[chat] = Append(@, MessageOf(id)),
               !.received = @ \cup {id}]
    /\ UNCHANGED <<healthVars, routerVars, syncVars, roundRobinVars, syncAllVars,
                   workflowVars, argsVars, waitVars>>

\* GET /history/messages?chat_jid=..&limit=..: the first limit pending
\* messages of the chat.
PendingBatch(secondary, chat_jid, limit) ==
    SubSeq(secondary[chat_jid], 1,
           IF Len(secondary[chat_jid]) < limit THEN Len(secondary[chat_jid]) ELSE limit)

\* What the fetch of step 1 can do on the secondary store.
StoreFetchAnswers(secondary, chat_jid) ==
    {[raised |-> "RequestException", messages |-> <<>>],
     [raised |-> "none", messages |-> PendingBatch(secondary, chat_jid, SyncBatchSize)]}

\* What the lookup of step 2 can do: fail, or report ids of the batch that the
\* primary store holds for the chat; as written, _get_existing_message_ids
\* reports none.
StoreLookupAnswers(primary, chat_jid, messages) ==
    {[raised |-> "Exception", existing_ids |-> {}]}
    \cup {[raised |-> "none", existing_ids |-> d] :
             d \in SUBSET (primary[chat_jid] \cap IdsOf(messages))}

\* POST /messages/batch on the primary store of the chat: the first
\* inserted_count messages are kept, all of them when no count is reported,
\* none when the request fails.
PrimaryAfter(primary, chat_jid, messages, insert) ==
    IF insert.raised # "none" THEN primary
    ELSE [primary EXCEPT ![chat_jid] =
              @ \cup IdsOf(SubSeq(messages, 1,
                         IF insert.has_count THEN insert.inserted_count
                         ELSE Len(messages)))]

\* Faulty variant: the temp store is emptied, as the docstring has it
\* ("Clear all data from Baileys temp database").
ClearEffect_AllData(secondary) == [chat \in DOMAIN secondary |-> <<>>]

\* The body of _clear_baileys_temp_db on the secondary store: a debug line,
\* no request; the store stays as it is.
ClearEffect(secondary) == secondary

\* sync_messages, step 1: the fetch.  A failure and an empty batch end the call.
StoreFetch(t) ==
    /\ stores.syncers[t].pc = "idle"
    /\ \E chat_jid \in StoreChats :
       \E fetch \in StoreFetchAnswers(stores.secondary, chat_jid) :
           stores' = [stores EXCEPT !.syncers[t] =
               [IdleSyncer EXCEPT
                   !.chat_jid = chat_jid,
                   !.messages = fetch.messages,
                   !.pc = IF fetch.raised # "none" \/ Len(fetch.messages) = 0
                          THEN "done" ELSE "lookup",
                   !.ret = IF fetch.raised # "none"
                           THEN Return(SyncResult(FALSE, 0, 0, StrOf(fetch.raised), FALSE))
                           ELSE IF Len(fetch.messages) = 0
                           THEN Return(SyncResult(TRUE, 0, 0, None, FALSE))
                           ELSE NotReturned]]
    /\ UNCHANGED <<healthVars, routerVars, syncVars, roundRobinVars, syncAllVars,
                   workflowVars, argsVars, waitVars>>

\* Step 2: the lookup and the deduplication.
StoreLookup(t) ==
    /\ stores.syncers[t].pc = "lookup"
    /\ \E lookup \in StoreLookupAnswers(stores.primary, stores.syncers[t].chat_jid,
                                        stores.syncers[t].messages) :
       \E dedup \in {_deduplicate_messages(stores.syncers[t].messages, lookup)} :
           stores' = [stores EXCEPT !.syncers[t] =
               [@ EXCEPT !.lookup = lookup,
                         !.deduplicated = dedup.deduplicated,
                         !.total_deduplicated = dedup.duplicate_count,
                         !.pc = IF Len(dedup.deduplicated) = 0 THEN "clear" ELSE "insert"]]
    /\ UNCHANGED <<healthVars, routerVars, syncVars, roundRobinVars, syncAllVars,
                   workflowVars, argsVars, waitVars>>

\* Step 3: the batch insert; a failed request ends the call.
StoreInsert(t) ==
    /\ stores.syncers[t].pc = "insert"
    /\ \E insert \in InsertAnswers(Len(stores.syncers[t].deduplicated)) :
       \E inserted \in {_insert_to_go_db(stores.syncers[t].deduplicated, insert)} :
           stores' = [stores EXCEPT
               !.primary = PrimaryAfter(@, stores.syncers[t].chat_jid,
                                        stores.syncers[t].deduplicated, insert),
               !.syncers[t] =
                   [@ EXCEPT
                       !.submitted = stores.syncers[t].deduplicated,
                       !.total_synced = IF inserted.raised = "none"
                                        THEN inserted.value ELSE 0,
                       !.pc = IF inserted.raised = "none" THEN "checkpoint" ELSE "done",
                       !.ret = IF inserted.raised = "none" THEN NotReturned
                               ELSE Return(SyncResult(FALSE, 0,
                                        stores.syncers[t].total_deduplicated,
                                        StrOf(inserted.raised), FALSE))]]
    /\ UNCHANGED <<healthVars, routerVars, syncVars, roundRobinVars, syncAllVars,
                   workflowVars, argsVars, waitVars>>

\* Step 4: _update_checkpoint, a debug line.
StoreCheckpoint(t) ==
    /\ stores.syncers[t].pc = "checkpoint"
    /\ stores' = [stores EXCEPT !.syncers[t] = [@ EXCEPT !.pc = "clear"]]
    /\ UNCHANGED <<healthVars, routerVars, syncVars, roundRobinVars, syncAllVars,
                   workflowVars, argsVars, waitVars>>

\* Step 5 (and the clear after a batch of duplicates): _clear_baileys_temp_db,
\* then the SyncResult.
StoreClear(t) ==
    /\ stores.syncers[t].pc = "clear"
    /\ stores' = [stores EXCEPT
           !.secondary = ClearEffect(@),
           !.syncers[t] =
               [@ EXCEPT !.cleared = TRUE,
                         !.pc = "done",
                         !.ret = Return(SyncResult(TRUE,
                                     stores.syncers[t].total_synced,
                                     stores.syncers[t].total_deduplicated, None,
                                     Len(stores.syncers[t].submitted) > 0))]]
    /\ UNCHANGED <<healthVars, routerVars, syncVars, roundRobinVars, syncAllVars,
                   workflowVars, argsVars, waitVars>>

\* The caller of thread t takes the SyncResult.
StoreReturn(t) ==
    /\ stores.syncers[t].pc = "done"
    /\ stores' = [stores EXCEPT !.syncers[t] = IdleSyncer]
    /\ UNCHANGED <<healthVars, routerVars, syncVars, roundRobinVars, syncAllVars,
                   workflowVars, argsVars, waitVars>>

NextStores ==
    \/ StoreReceive
    \/ \E t \in Threads :
           \/ StoreFetch(t)
           \/ StoreLookup(t)
           \/ StoreInsert(t)
           \/ StoreCheckpoint(t)
           \/ StoreClear(t)
           \/ StoreReturn(t)

SpecStores == Init /\ [][NextStores]_vars

\* ------------------- SpecSyncTool: sync_history_to_database on sync_all_chats

\* The tool sync_history_to_database: sync_all_chats has returned, and its
\* results are aggregated into the dict of the tool.
SyncHistoryToDatabaseRun ==
    /\ all_pc = "done"
    /\ WorkflowIdle
    /\ workflow_ret' =
           [op |-> "sync_history_to_database",
            answers |-> [listing |-> listing, chat_results |-> all_ret.value],
            out |-> Return(sync_history_to_database(all_ret.value)),
            ops |-> <<"sync_all_chats">>]
    /\ listing' = NoListing
    /\ position' = 0
    /\ results' = NoResults
    /\ sync_calls' = <<>>
    /\ all_pc' = "idle"
    /\ all_ret' = NotReturned
    /\ UNCHANGED <<healthVars, routerVars, syncVars, roundRobinVars,
                   argsVars, waitVars, storeVars>>

NextSyncTool ==
    \/ (WorkflowIdle /\ SyncAllList)
    \/ SyncAllChat
    \/ SyncHistoryToDatabaseRun
    \/ WorkflowReturn

SpecSyncTool == Init /\ [][NextSyncTool]_vars

\* --------------------------------------------------------------- properties

\* The backends whose status, among the two given, is ok or degraded.
UpAmong(go_status, baileys_status) ==
    {b \in Backends :
        (IF b = "go" THEN go_status ELSE baileys_status) \in {"ok", "degraded"}}

\* The elements of a list.
Elements(list) == {list[i] : i \in 1..Len(list)}

\* C1: for the two statuses one check_all call observed, the overall status is
\* ok iff both are ok or degraded, degraded iff exactly one is, error iff
\* neither is, and available_backends lists exactly the backends that are.
C1_Aggregation ==
    health_ret.op = "check_all" =>
        /\ health_ret.out.raised = "none"
        /\ LET overall == health_ret.out.value
               up == UpAmong(overall.go_backend.status, overall.baileys_backend.status)
           IN /\ overall.status = "ok" <=> Cardinality(up) = 2
              /\ overall.status = "degraded" <=> Cardinality(up) = 1
              /\ overall.status = "error" <=> Cardinality(up) = 0
              /\ Elements(overall.available_backends) = up
              /\ Len(overall.available_backends) = Cardinality(up)

\* A check_all that found go unreachable and baileys degraded.
C1_Witness ==
    /\ health_ret.op = "check_all"
    /\ health_ret.out.value.go_backend.status = "unreachable"
    /\ health_ret.out.value.baileys_backend.status = "degraded"
    /\ health_ret.out.value.status = "degraded"

\* Every probe of the Router call found its backend unusable.
AllProbesDown == Len(probes) > 0 /\ \A i \in 1..Len(probes) : ~probes[i][2]

\* Every probe of the Router call found its backend usable.
AllProbesUp == Len(probes) > 0 /\ \A i \in 1..Len(probes) : probes[i][2]

\* C2: with both backends unavailable select_backend returns None whatever the
\* operation and strategy, and route_call returns (False, "No backend
\* available") and invokes neither function.
C2_NoBackend ==
    (pc = "done" /\ AllProbesDown) =>
        /\ call.fn = "select_backend" => route_ret = Return(None)
        /\ call.fn = "route_call" =>
               /\ route_ret = Return(<<FALSE, "No backend available">>)
               /\ call_log = <<>>

\* A route_call under ROUND_ROBIN that found both backends down.
C2_Witness ==
    /\ pc = "done"
    /\ call.fn = "route_call"
    /\ call.strategy = "round_robin"
    /\ call.required_backend = None
    /\ Len(probes) = 2
    /\ AllProbesDown

\* The snapshot a select_backend call without required_backend worked on.
Snapshot == frame.overall[1]
GoUp == Snapshot.go_backend.status \in {"ok", "degraded"}
BaileysUp == Snapshot.baileys_backend.status \in {"ok", "degraded"}

\* go if available, else baileys if available, else None.
GoFirst == IF GoUp THEN "go" ELSE IF BaileysUp THEN "baileys" ELSE None
\* baileys if available, else go if available, else None.
BaileysFirst == IF BaileysUp THEN "baileys" ELSE IF GoUp THEN "go" ELSE None

\* C3: under PREFER_GO, and for an operation that is not in the strategy
\* table, select_backend returns go if available, else baileys if available,
\* else None; under PREFER_BAILEYS baileys if available, else go if available,
\* else None; degraded counts as available.
C3_Preference ==
    (pc = "done" /\ call.fn = "select_backend" /\ call.required_backend = None) =>
        /\ call.operation \notin OperationTypes => route_ret = Return(GoFirst)
        /\ call.operation \in OperationTypes =>
               /\ operation_strategies[call.operation] = "prefer_go" =>
                      route_ret = Return(GoFirst)
               /\ operation_strategies[call.operation] = "prefer_baileys" =>
                      route_ret = Return(BaileysFirst)

\* An operation outside the table, go down and baileys degraded: baileys.
C3_Witness ==
    /\ pc = "done"
    /\ call.fn = "select_backend"
    /\ call.required_backend = None
    /\ call.operation = UnknownOperation
    /\ ~GoUp
    /\ Snapshot.baileys_backend.status = "degraded"
    /\ route_ret = Return("baileys")

OtherBackend(b) == IF b = "go" THEN "baileys" ELSE "go"
FuncOf(b) == IF b = "go" THEN call.go_func ELSE call.baileys_func
TimesInvoked(b) == Cardinality({i \in 1..Len(call_log) : call_log[i] = b})

\* C4: route_with_fallback with both backends available, a failing function
\* for the selected backend and a succeeding one for the other returns (True,
\* the other's result), having invoked the failing function once and first;
\* no route_with_fallback call invokes a backend function twice.
C4_Fallback ==
    call.fn = "route_with_fallback" =>
        /\ \A b \in Backends : TimesInvoked(b) <= 1
        /\ (/\ pc = "done"
            /\ AllProbesUp
            /\ FuncOf(frame.primary_backend) = "raises"
            /\ FuncOf(OtherBackend(frame.primary_backend)) = "returns") =>
               /\ call_log = <<frame.primary_backend, OtherBackend(frame.primary_backend)>>
               /\ route_ret = Return(<<TRUE,
                      IF frame.primary_backend = "go" THEN "baileys result"
                      ELSE "go result">>)

\* baileys was selected and raised, go answered.
C4_Witness ==
    /\ pc = "done"
    /\ call.fn = "route_with_fallback"
    /\ AllProbesUp
    /\ frame.primary_backend = "baileys"
    /\ call_log = <<"baileys", "go">>
    /\ route_ret = Return(<<TRUE, "go result">>)

\* C5: route_call invokes at most the function of the selected backend;
\* it returns (True, result) when that returns, (False, str(exception)) when it
\* raises, (False, "Baileys backend not supported for this operation") without
\* invoking anything when baileys is selected and no baileys function was
\* given; no exception leaves route_call.
C5_RouteCall ==
    (pc = "done" /\ call.fn = "route_call") =>
        /\ route_ret.raised = "none"
        /\ Len(call_log) <= 1
        /\ frame.primary_backend = "go" =>
               /\ call_log = <<"go">>
               /\ call.go_func = "returns" => route_ret.value = <<TRUE, "go result">>
               /\ call.go_func = "raises" => route_ret.value = <<FALSE, "str(go error)">>
        /\ (frame.primary_backend = "baileys" /\ call.baileys_func = None) =>
               /\ call_log = <<>>
               /\ route_ret.value =
                      <<FALSE, "Baileys backend not supported for this operation">>
        /\ (frame.primary_backend = "baileys" /\ call.baileys_func # None) =>
               /\ call_log = <<"baileys">>
               /\ call.baileys_func = "returns" =>
                      route_ret.value = <<TRUE, "baileys result">>
               /\ call.baileys_func = "raises" =>
                      route_ret.value = <<FALSE, "str(baileys error)">>

\* baileys selected, no baileys function, the go function left alone.
C5_Witness ==
    /\ pc = "done"
    /\ call.fn = "route_call"
    /\ frame.primary_backend = "baileys"
    /\ call.baileys_func = None
    /\ call.go_func = "returns"
    /\ route_ret.value[1] = FALSE

DistinctIds(messages) == Cardinality(IdsOf(messages)) = Len(messages)

\* A sync_messages call whose lookup answered and whose insert, if it was
\* reached, took every submitted message.
LookupAnsweredInsertFull ==
    /\ sync_in.called
    /\ sync_in.fetch.raised = "none"
    /\ sync_in.lookup.raised = "none"
    /\ sync_in.insert.raised # "RequestException"
    /\ sync_in.insert.has_count => sync_in.insert.inserted_count = Len(submitted)

\* The ids of the batch the lookup reported as present in the primary store.
ReportedIds == sync_in.lookup.existing_ids \cap IdsOf(sync_in.fetch.messages)

\* The batch without the messages whose id was reported.
Unreported ==
    SelectSeq(sync_in.fetch.messages, LAMBDA msg : msg.id \notin ReportedIds)

\* The number of messages of the batch whose id was reported.
ReportedMessages ==
    Cardinality({i \in 1..Len(sync_in.fetch.messages) :
                    sync_in.fetch.messages[i].id \in ReportedIds})

C7_SyncNeverRaises ==
    sync_in.called =>
        /\ sync_ret.raised = "none"
        /\ (sync_in.fetch.raised = "RequestException"
            \/ sync_in.insert.raised = "RequestException") =>
               /\ ~sync_ret.value.success
               /\ sync_ret.value.error_message # None
               /\ sync_ret.value.messages_synced = 0
        /\ sync_ret.value.success => sync_ret.value.error_message = None

\* The insert failed after the deduplication had dropped a message.
C7_Witness ==
    /\ sync_in.called
    /\ sync_in.insert.raised = "RequestException"
    /\ Len(submitted) > 0
    /\ ~sync_ret.value.success
    /\ sync_ret.value.messages_deduplicated > 0

\* The answer the last single probe got.
ProbeAnswer == health_ret.resps[1]

\* C8: a single probe never raises; a non-200 answer gives status error and
\* "HTTP {code}", a timeout unreachable and "Health check timeout", a refused
\* connection unreachable and "Connection refused", any other exception and an
\* unreadable 200 body status error; in these four cases whatsapp_connected is
\* false and the backend's failure counter is one higher than before.
C8_ProbeNeverRaises ==
    health_ret.op \in {"check_go_health", "check_baileys_health"} =>
        /\ health_ret.out.raised = "none"
        /\ health_ret.out.value.backend = health_ret.backend
        /\ (ProbeAnswer.kind = "http" /\ ProbeAnswer.code # 200) =>
               /\ health_ret.out.value.status = "error"
               /\ health_ret.out.value.error_message =
                      (IF ProbeAnswer.code = 500 THEN "HTTP 500" ELSE "HTTP 503")
        /\ ProbeAnswer.kind = "Timeout" =>
               /\ health_ret.out.value.status = "unreachable"
               /\ health_ret.out.value.error_message = "Health check timeout"
        /\ ProbeAnswer.kind = "ConnectionError" =>
               /\ health_ret.out.value.status = "unreachable"
               /\ health_ret.out.value.error_message = "Connection refused"
        /\ (\/ ProbeAnswer.kind = "Exception"
            \/ ProbeAnswer.kind = "http" /\ ProbeAnswer.code = 200
               /\ ~ProbeAnswer.body.parse_ok) =>
               health_ret.out.value.status = "error"
        /\ FailedCheck(ProbeAnswer) =>
               /\ ~health_ret.out.value.whatsapp_connected
               /\ FailureCount(monitor, health_ret.backend) =
                      health_ret.before[health_ret.backend] + 1

\* A 200 answer of the baileys bridge that could not be read, after one
\* earlier failure.
C8_Witness ==
    /\ health_ret.op = "check_baileys_health"
    /\ ProbeAnswer.kind = "http"
    /\ ProbeAnswer.code = 200
    /\ ~ProbeAnswer.body.parse_ok
    /\ health_ret.before["baileys"] = 1
    /\ monitor.baileys_failure_count = 2

\* C9: each backend's failure counter is the number of its failed checks since
\* its last check that did not fail (N after N failures from 0, 0 after a
\* success), and a check of one backend leaves the other's counter alone.
C9_FailureCounters ==
    /\ \A b \in Backends : FailureCount(monitor, b) = streak[b]
    /\ health_ret.backend \in Backends =>
           FailureCount(monitor, OtherBackend(health_ret.backend)) =
               health_ret.before[OtherBackend(health_ret.backend)]

\* A successful check of go after two failed ones, the baileys counter at 1.
C9_Witness ==
    /\ health_ret.op = "check_go_health"
    /\ health_ret.before["go"] = 2
    /\ monitor.go_failure_count = 0
    /\ monitor.baileys_failure_count = 1

\* C10: with required_backend given, select_backend probes that backend alone
\* and returns it if the probe found it available and None otherwise,
\* whatever the strategy of the operation.
C10_Required ==
    (pc = "done" /\ call.fn = "select_backend" /\ call.required_backend # None) =>
        /\ Len(probes) = 1
        /\ probes[1][1] = call.required_backend
        /\ route_ret = Return(IF probes[1][2] THEN call.required_backend ELSE None)

\* baileys required and down, for an operation whose strategy prefers go.
C10_Witness ==
    /\ pc = "done"
    /\ call.fn = "select_backend"
    /\ call.required_backend = "baileys"
    /\ call.strategy = "prefer_go"
    /\ ~probes[1][2]
    /\ route_ret = Return(None)

\* C11: under FASTEST with both backends available select_backend returns the
\* backend whose response_time_ms in the snapshot of the call is strictly
\* lower; with one or no backend available it returns what PREFER_GO returns.
C11_Fastest ==
    (/\ pc = "done"
     /\ call.fn = "select_backend"
     /\ call.required_backend = None
     /\ call.strategy = "fastest") =>
        /\ (GoUp /\ BaileysUp) =>
               /\ Snapshot.go_backend.response_time_ms
                      < Snapshot.baileys_backend.response_time_ms =>
                      route_ret = Return("go")
               /\ Snapshot.baileys_backend.response_time_ms
                      < Snapshot.go_backend.response_time_ms =>
                      route_ret = Return("baileys")
        /\ ~(GoUp /\ BaileysUp) => route_ret = Return(GoFirst)

\* Both backends available, baileys the faster one: baileys.
C11_Witness ==
    /\ pc = "done"
    /\ call.fn = "select_backend"
    /\ call.required_backend = None
    /\ call.strategy = "fastest"
    /\ GoUp
    /\ BaileysUp
    /\ Snapshot.baileys_backend.response_time_ms < Snapshot.go_backend.response_time_ms
    /\ route_ret = Return("baileys")

\* C12: whatever the interleaving of the threads' ROUND_ROBIN select_backend
\* calls, each call returns None or a backend of the available-backend list
\* of its own snapshot, and the index it computes lies inside that list.
C12_RoundRobinSafe ==
    \A t \in Threads :
        threads[t].pc = "done" =>
            /\ threads[t].ret.raised = "none"
            /\ \/ threads[t].ret.value = None
               \/ In(threads[t].ret.value, threads[t].available_backends)
            /\ threads[t].ret.value # None =>
                   threads[t].idx \in 0..(Len(threads[t].available_backends) - 1)

\* A lost update: both threads read the same counter value and wrote it back
\* plus one, and t1 then returned the backend at index 1 of its two.
C12_Witness ==
    /\ threads["t1"].pc = "done"
    /\ threads["t2"].pc \in {"index", "done"}
    /\ threads["t1"].loaded = threads["t2"].loaded
    /\ round_robin_counter = threads["t1"].loaded + 1
    /\ Len(threads["t1"].available_backends) = 2
    /\ threads["t1"].ret = Return("baileys")

\* The backend a strategy other than ROUND_ROBIN yields for the snapshot of
\* the call, by the snapshot alone.
BySnapshot(strategy) ==
    IF strategy = "prefer_baileys" THEN BaileysFirst
    ELSE IF strategy = "fastest" /\ GoUp /\ BaileysUp
    THEN IF Snapshot.go_backend.response_time_ms
                < Snapshot.baileys_backend.response_time_ms
         THEN "go" ELSE "baileys"
    ELSE GoFirst

\* The ROUND_ROBIN selections that chose a backend before the call in progress.
SelectionsBefore == rr_selections - (IF route_ret.value = None THEN 0 ELSE 1)

\* The backend ROUND_ROBIN yields for the snapshot of the call after n
\* selections.
ByTurn(n) ==
    IF Len(Snapshot.available_backends) = 0 THEN None
    ELSE Snapshot.available_backends[((n + 1) % Len(Snapshot.available_backends)) + 1]

\* C13: under PRIMARY_ONLY, PREFER_GO, PREFER_BAILEYS and FASTEST the backend
\* select_backend returns is a function of the strategy and the snapshot,
\* whatever calls came before; under ROUND_ROBIN it is a function of the
\* snapshot and the number of earlier ROUND_ROBIN selections.
C13_Deterministic ==
    (pc = "done" /\ call.fn = "select_backend" /\ call.required_backend = None) =>
        /\ route_ret.raised = "none"
        /\ call.strategy # "round_robin" => route_ret.value = BySnapshot(call.strategy)
        /\ call.strategy = "round_robin" => route_ret.value = ByTurn(SelectionsBefore)

\* The second ROUND_ROBIN selection with both backends available, after a
\* call under another strategy: go.
C13_Witness ==
    /\ pc = "done"
    /\ call.fn = "select_backend"
    /\ call.required_backend = None
    /\ call.strategy = "round_robin"
    /\ Len(Snapshot.available_backends) = 2
    /\ rr_selections = 2
    /\ route_ret = Return("go")

\* C14: every sync_messages call whose fetch returns no message returns
\* success with messages_synced=0 and messages_deduplicated=0 and performs no
\* dedup lookup, no insert and no checkpoint update.
C14_EmptyBatch ==
    (sync_in.called /\ sync_in.fetch.raised = "none"
     /\ Len(sync_in.fetch.messages) = 0) =>
        /\ sync_ret.raised = "none"
        /\ sync_ret.value.success
        /\ sync_ret.value.messages_synced = 0
        /\ sync_ret.value.messages_deduplicated = 0
        /\ sync_ret.value.error_message = None
        /\ sync_log = <<"fetch">>
        /\ submitted = <<>>

\* A sync_messages call that fetched an empty batch and returned success.
C14_Witness ==
    /\ sync_in.called
    /\ sync_in.fetch.raised = "none"
    /\ Len(sync_in.fetch.messages) = 0
    /\ sync_in.lookup = NoLookup
    /\ sync_log = <<"fetch">>
    /\ sync_ret.value.success

\* C16: when the dedup lookup fails, sync_messages does not fail because of
\* it: the whole fetched batch is submitted for insertion, the reported
\* messages_deduplicated is 0, and the result is success unless the insert
\* itself fails.
C16_LookupFailure ==
    (sync_in.called /\ sync_in.lookup.raised = "Exception") =>
        /\ sync_ret.raised = "none"
        /\ submitted = sync_in.fetch.messages
        /\ sync_ret.value.messages_deduplicated = 0
        /\ sync_in.insert.raised = "none" => sync_ret.value.success
        /\ ~sync_ret.value.success => sync_in.insert.raised = "RequestException"

\* The lookup failed for a batch of two messages; both were submitted and the
\* sync succeeded.
C16_Witness ==
    /\ sync_in.called
    /\ sync_in.lookup.raised = "Exception"
    /\ Len(sync_in.fetch.messages) = 2
    /\ submitted = sync_in.fetch.messages
    /\ sync_ret.value.success
    /\ sync_ret.value.messages_synced = 2

\* The count the insert of the last sync_messages reported.
InsertedCount ==
    IF sync_in.insert.has_count THEN sync_in.insert.inserted_count ELSE Len(submitted)

ListedJids == [i \in 1..Len(listing.chats) |-> listing.chats[i].jid]

\* C15: sync_all_chats calls sync_messages for the chats of the listing one
\* after the other, in the order of the listing; once it has returned, there
\* was one call per listed chat, whether or not an earlier one failed, and
\* the mapping returned holds a SyncResult for each listed chat, the one of
\* the last call for that chat.
C15_SyncAllChats ==
    /\ sync_calls = SubSeq(ListedJids, 1, position)
    /\ (all_pc = "done" /\ listing.raised = "none") =>
           /\ all_ret.raised = "none"
           /\ sync_calls = ListedJids
           /\ DOMAIN all_ret.value = {ListedJids[i] : i \in 1..Len(ListedJids)}
           /\ all_ret.value = results
           /\ \A j \in DOMAIN all_ret.value : all_ret.value[j].success \in BOOLEAN

\* Two chats listed, the sync of the first failed and the second was synced.
C15_Witness ==
    /\ all_pc = "done"
    /\ Len(listing.chats) = 2
    /\ sync_calls = <<"chat1@g.us", "chat2@g.us">>
    /\ ~all_ret.value["chat1@g.us"].success
    /\ all_ret.value["chat2@g.us"].success
    /\ all_ret.value["chat2@g.us"].messages_synced = 1

\* primary_backend of an OverallHealth is go if go's status is ok or degraded,
\* otherwise baileys if its status is, otherwise "none".
GoBeforeBaileys(overall) ==
    overall.primary_backend =
        IF overall.go_backend.status \in {"ok", "degraded"} THEN "go"
        ELSE IF overall.baileys_backend.status \in {"ok", "degraded"} THEN "baileys"
        ELSE "none"

\* C18: the primary_backend of every OverallHealth check_all returns is go if
\* go is available, otherwise baileys if baileys is, otherwise "none";
\* get_preferred_backend returns the primary_backend of the OverallHealth it
\* got, and None exactly when that OverallHealth has status error.
C18_Primary ==
    /\ health_ret.op = "check_all" =>
           /\ health_ret.out.raised = "none"
           /\ GoBeforeBaileys(health_ret.out.value)
    /\ health_ret.op = "get_preferred_backend" =>
           /\ health_ret.out.raised = "none"
           /\ GoBeforeBaileys(health_ret.overall)
           /\ health_ret.out.value = None <=> health_ret.overall.status = "error"
           /\ health_ret.out.value # None =>
                  /\ health_ret.out.value \in Backends
                  /\ health_ret.out.value = health_ret.overall.primary_backend

\* get_preferred_backend found go down and baileys degraded, and returned baileys.
C18_Witness ==
    /\ health_ret.op = "get_preferred_backend"
    /\ health_ret.overall.go_backend.status = "unreachable"
    /\ health_ret.overall.baileys_backend.status = "degraded"
    /\ health_ret.out.value = "baileys"

\* The tools the workflow calls, in the order of its stages.
WorkflowCalls ==
    <<"backend_status", "retrieve_full_history", "sync_history_to_database",
      "mark_community_as_read", "clear_temp_data">>

Stages == <<"health_check", "history_sync", "database_sync", "mark_as_read", "cleanup">>

\* The names of the steps of a report.
StepNames(result) == [i \in 1..Len(result.steps) |-> result.steps[i].step]

\* The first n elements of list.
FirstN(list, n) == SubSeq(list, 1, n)

\* What the bridges answered made the stage succeed.
HealthOk == workflow_ret.answers.go_healthy /\ workflow_ret.answers.baileys_healthy
HistoryOk ==
    retrieve_full_history(workflow_ret.answers.status, workflow_ret.answers.waited,
                          workflow_ret.answers.final_status).success
DatabaseOk == sync_history_to_database(workflow_ret.answers.chat_results).success
MarkOk == workflow_ret.answers.mark[1]

WorkflowDone == workflow_ret.op = "mark_community_as_read_with_history"

\* C19, as stated: the workflow returns a report; its calls follow the order
\* of the stages; a failed health check, history sync or database sync gives
\* success false and no later call; a failed mark-as-read is followed by the
\* cleanup and gives success false; with every stage successful the report
\* holds the five steps and success is true.
C19_AsStated ==
    WorkflowDone =>
        /\ workflow_ret.out.raised = "none"
        /\ \E n \in 1..5 : workflow_ret.ops = FirstN(WorkflowCalls, n)
        /\ ~HealthOk =>
               ~workflow_ret.out.value.success /\ Len(workflow_ret.ops) = 1
        /\ HealthOk /\ ~HistoryOk =>
               ~workflow_ret.out.value.success /\ Len(workflow_ret.ops) = 2
        /\ HealthOk /\ HistoryOk /\ ~DatabaseOk =>
               ~workflow_ret.out.value.success /\ Len(workflow_ret.ops) = 3
        /\ HealthOk /\ HistoryOk /\ DatabaseOk /\ ~MarkOk =>
               ~workflow_ret.out.value.success /\ Len(workflow_ret.ops) = 5
        /\ HealthOk /\ HistoryOk /\ DatabaseOk /\ MarkOk =>
               /\ workflow_ret.out.value.success
               /\ StepNames(workflow_ret.out.value) = Stages

\* C19, what the workflow does: its calls follow the order of the stages; a
\* failed health check, history sync or database sync returns success false,
\* the steps up to the failed one, and nothing is called after it; a
\* successful database sync ends the workflow with KeyError, before
\* mark_community_as_read and the cleanup.
C19_Stages ==
    WorkflowDone =>
        /\ \E n \in 1..5 : workflow_ret.ops = FirstN(WorkflowCalls, n)
        /\ ~HealthOk =>
               /\ workflow_ret.out.raised = "none"
               /\ ~workflow_ret.out.value.success
               /\ Len(workflow_ret.ops) = 1
        /\ HealthOk /\ ~HistoryOk =>
               /\ workflow_ret.out.raised = "none"
               /\ ~workflow_ret.out.value.success
               /\ StepNames(workflow_ret.out.value) = FirstN(Stages, 2)
               /\ Len(workflow_ret.ops) = 2
        /\ HealthOk /\ HistoryOk /\ ~DatabaseOk =>
               /\ workflow_ret.out.raised = "none"
               /\ ~workflow_ret.out.value.success
               /\ StepNames(workflow_ret.out.value) = FirstN(Stages, 3)
               /\ Len(workflow_ret.ops) = 3
        /\ HealthOk /\ HistoryOk /\ DatabaseOk =>
               /\ workflow_ret.out.raised = "KeyError"
               /\ Len(workflow_ret.ops) = 3

\* Both bridges healthy, the history retrieved after waiting, and the sync of
\* one of two chats failed: the workflow stopped at the database sync.
C19_Witness ==
    /\ WorkflowDone
    /\ HealthOk
    /\ workflow_ret.answers.waited
    /\ HistoryOk
    /\ Cardinality(DOMAIN workflow_ret.answers.chat_results) = 2
    /\ ~DatabaseOk
    /\ workflow_ret.ops = FirstN(WorkflowCalls, 3)
    /\ workflow_ret.out.value.steps[3].mark = "failed"

\* Every invocation of a backend function got the *args and **kwargs of the call.
ArgumentsPassedOn ==
    \A i \in 1..Len(args_ret.invoked) :
        /\ args_ret.invoked[i].args = args_ret.args
        /\ args_ret.invoked[i].kwargs = args_ret.kwargs

\* The call returned a (bool, value) tuple.
ReturnedTuple ==
    /\ args_ret.out.raised = "none"
    /\ Len(args_ret.out.value) = 2
    /\ args_ret.out.value[1] \in BOOLEAN

\* C20, as stated: every route_call and route_with_fallback, with or without
\* extra positional and keyword arguments, returns a (bool, value) tuple, no
\* exception leaves it, and the functions it invokes get those arguments.
C20_AsStated == ~ArgsIdle => ReturnedTuple /\ ArgumentsPassedOn

\* C20, what the Router does: a function it invokes gets the *args and
\* **kwargs of the call; route_call returns a (bool, value) tuple, and so does
\* route_with_fallback without extra positional arguments; with one,
\* route_with_fallback invokes nothing and ends with TypeError as soon as a
\* primary backend is selected.
C20_Arguments ==
    ~ArgsIdle =>
        /\ ArgumentsPassedOn
        /\ args_ret.fn = "route_call" => ReturnedTuple
        /\ (args_ret.fn = "route_with_fallback" /\ args_ret.args = <<>>) => ReturnedTuple
        /\ (args_ret.fn = "route_with_fallback" /\ args_ret.args # <<>>) =>
               /\ args_ret.invoked = <<>>
               /\ \/ args_ret.out.raised = "TypeError"
                  \/ args_ret.out = Return(<<FALSE, "No backend available">>)

\* route_with_fallback with a keyword argument: go_func raised, baileys_func
\* returned, and both were invoked with that keyword argument.
C20_Witness ==
    /\ args_ret.fn = "route_with_fallback"
    /\ args_ret.kwargs = [text |-> "hi"]
    /\ Len(args_ret.invoked) = 2
    /\ args_ret.invoked[1].backend = "go"
    /\ args_ret.invoked[2] = [backend |-> "baileys", args |-> <<>>, kwargs |-> [text |-> "hi"]]
    /\ args_ret.out = Return(<<TRUE, ResultOf("baileys")>>)

\* The wait has returned value.
WaitReturned(value) == wait.pc = "done" /\ wait.ret = Return(value)

\* C21, while the wait runs and once it has returned: True is returned only
\* after a probe that found the backend available, which is the last probe
\* and the only such one; False is returned only when the last test of the
\* loop found the elapsed time at or past the timeout and no probe found the
\* backend available; every probe follows a test that found time left.
C21_WaitOutcome ==
    /\ wait.pc \in {"loop", "probe"} =>
           \A i \in 1..Len(wait.found) : ~wait.found[i]
    /\ \A i \in 1..Len(wait.found) : wait.tested[i] < wait.timeout
    /\ WaitReturned(TRUE) =>
           /\ Len(wait.found) >= 1
           /\ wait.found[Len(wait.found)]
           /\ \A i \in 1..(Len(wait.found) - 1) : ~wait.found[i]
           /\ Len(wait.tested) = Len(wait.found)
    /\ WaitReturned(FALSE) =>
           /\ \A i \in 1..Len(wait.found) : ~wait.found[i]
           /\ Len(wait.tested) = Len(wait.found) + 1
           /\ wait.tested[Len(wait.tested)] >= wait.timeout
    /\ wait.pc = "done" => wait.ret \in {Return(TRUE), Return(FALSE)}

\* C21: wait_for_backend always terminates, and what it returns is as
\* C21_WaitOutcome says.
C21_Terminates ==
    /\ []C21_WaitOutcome
    /\ (wait.pc = "loop") ~> (wait.pc = "done")

\* A wait of three seconds that found the backend down twice and gave up.
C21_Witness ==
    /\ WaitReturned(FALSE)
    /\ wait.timeout = 3
    /\ wait.backend = "go"
    /\ wait.found = <<FALSE, FALSE>>

\* The times step appears among the steps of the last sync_messages.
StepCount(step) == Cardinality({i \in 1..Len(sync_log) : sync_log[i] = step})

\* C22: when the batch insert reports an inserted count smaller than the
\* submitted batch, sync_messages has called the insert once, returns
\* success, and reports that count as messages_synced.
C22_PartialInsert ==
    (/\ sync_in.called
     /\ sync_in.insert.raised = "none"
     /\ sync_in.insert.has_count
     /\ sync_in.insert.inserted_count < Len(submitted)) =>
        /\ StepCount("insert") = 1
        /\ sync_ret.raised = "none"
        /\ sync_ret.value.success
        /\ sync_ret.value.messages_synced = sync_in.insert.inserted_count

\* Two messages were submitted and the store reported one inserted.
C22_Witness ==
    /\ sync_in.called
    /\ Len(submitted) = 2
    /\ sync_in.insert.raised = "none"
    /\ sync_in.insert.has_count
    /\ sync_in.insert.inserted_count = 1
    /\ sync_ret.value.messages_synced = 1

\* A select_backend under FASTEST whose snapshot has both backends available
\* with the same response_time_ms.
FastestTie ==
    /\ pc = "done"
    /\ call.fn = "select_backend"
    /\ call.required_backend = None
    /\ call.strategy = "fastest"
    /\ GoUp
    /\ BaileysUp
    /\ Snapshot.go_backend.response_time_ms = Snapshot.baileys_backend.response_time_ms

FirstFailed ==
    /\ call.fn = "route_with_fallback"
    /\ pc = "done"
    /\ frame.first # <<>>
    /\ ~frame.first[1]

\* The check_all after the failed attempt listed no backend but the primary.
NoFallbackListed == FirstFailed /\ frame.fallback_backend = None

\* check_all listed another backend, and the probe of the attempt pinned to
\* it found it unavailable.
FallbackGone ==
    /\ FirstFailed
    /\ frame.fallback_backend # None
    /\ ~probes[Len(probes)][2]

\* C24, as stated: when the first attempt failed and no other backend could
\* be used, because none was listed or because the listed one was gone when
\* the second attempt probed it, the call returns (False, the error value of
\* the first attempt).
C24_AsStated ==
    (NoFallbackListed \/ FallbackGone) => route_ret = Return(<<FALSE, frame.first[2]>>)

\* C24: when the first attempt failed and the check_all made after it lists
\* no different backend, the call returns (False, the error value of the
\* first attempt), whatever the earlier probes of the call had found; when it
\* lists one and that backend is gone at the probe of the second attempt, the
\* call returns (False, "No backend available") and not the first failure.
C24_PrimaryFailure ==
    /\ NoFallbackListed => route_ret = Return(<<FALSE, frame.first[2]>>)
    /\ FallbackGone =>
           /\ route_ret = Return(<<FALSE, "No backend available">>)
           /\ Len(call_log) <= 1

\* Both backends were available when the primary was selected, its function
\* raised, and the check_all after that found no other backend.
C24_Witness ==
    /\ NoFallbackListed
    /\ probes[1][2]
    /\ probes[2][2]
    /\ Len(call_log) = 1
    /\ frame.first[2] # "No backend available"
    /\ route_ret = Return(<<FALSE, frame.first[2]>>)

\* The backend that is not the primary one of the call, and what the
\* check_all after the failed first attempt found about it.
Alternate == OtherBackend(frame.primary_backend)
AlternateListed == probes[IF Alternate = "go" THEN 4 ELSE 5][2]

\* C25: when the first attempt of route_with_fallback, the route_call pinned
\* to the selected backend, failed (that backend was gone at its probe, had
\* no function, or its function raised) and the check_all after it found the
\* other backend available, a second route_call pinned to that backend was
\* made: it probed that backend and, finding it available with a function
\* given, invoked that function last; its result is what the call returns.
C25_SecondAttempt ==
    (FirstFailed /\ AlternateListed) =>
        /\ frame.fallback_backend = Alternate
        /\ Len(probes) = 6
        /\ probes[6][1] = Alternate
        /\ (probes[6][2] /\ FuncOf(Alternate) # None) =>
               /\ Len(call_log) >= 1
               /\ call_log[Len(call_log)] = Alternate
               /\ route_ret = IF FuncOf(Alternate) = "returns"
                               THEN Return(<<TRUE, ResultOf(Alternate)>>)
                               ELSE Return(<<FALSE, StrOf(ErrorOf(Alternate))>>)
        /\ ~probes[6][2] => route_ret = Return(<<FALSE, "No backend available">>)

\* go was selected and gone at the probe of the first attempt, so that no
\* function was invoked; baileys was found available and served the call.
C25_Witness ==
    /\ FirstFailed
    /\ frame.primary_backend = "go"
    /\ ~probes[3][2]
    /\ frame.first = <<FALSE, "No backend available">>
    /\ AlternateListed
    /\ call_log = <<"baileys">>
    /\ route_ret = Return(<<TRUE, ResultOf("baileys")>>)

\* The last sync_messages fetched no message.
FetchedNothing ==
    sync_in.called /\ sync_in.fetch.raised = "none" /\ Len(sync_in.fetch.messages) = 0

\* The last sync_messages fetched messages and the lookup found every one of
\* them in the primary store.
AllDuplicates ==
    /\ sync_in.called
    /\ sync_in.fetch.raised = "none"
    /\ Len(sync_in.fetch.messages) > 0
    /\ sync_in.lookup.raised = "none"
    /\ \A i \in 1..Len(sync_in.fetch.messages) :
           sync_in.fetch.messages[i].id \in sync_in.lookup.existing_ids

\* The result is success with nothing synced and deduplicated duplicates.
NothingSynced(deduplicated) ==
    /\ sync_ret.raised = "none"
    /\ sync_ret.value.success
    /\ sync_ret.value.messages_synced = 0
    /\ sync_ret.value.messages_deduplicated = deduplicated

\* C26, as stated: after an empty fetch the clear of the secondary store has
\* been invoked and the result is success with synced=0; after a batch of
\* duplicates only there was no insert, the clear has been invoked, and the
\* result is success with synced=0 and the batch size as messages_deduplicated.
C26_AsStated ==
    /\ FetchedNothing => StepCount("clear") = 1 /\ NothingSynced(0)
    /\ AllDuplicates =>
           /\ StepCount("insert") = 0
           /\ StepCount("clear") = 1
           /\ NothingSynced(Len(sync_in.fetch.messages))

\* C26: after an empty fetch sync_messages returns success with synced=0
\* without invoking the clear of the secondary store; after a batch of
\* duplicates only there was no insert, the clear is the last step, and the
\* result is success with synced=0 and the batch size as messages_deduplicated.
C26_Clear ==
    /\ FetchedNothing => StepCount("clear") = 0 /\ NothingSynced(0)
    /\ AllDuplicates =>
           /\ StepCount("insert") = 0
           /\ submitted = <<>>
           /\ StepCount("clear") = 1
           /\ sync_log[Len(sync_log)] = "clear"
           /\ NothingSynced(Len(sync_in.fetch.messages))

\* Two fetched messages, both already in the primary store.
C26_Witness ==
    /\ AllDuplicates
    /\ Len(sync_in.fetch.messages) = 2
    /\ sync_log = <<"fetch", "lookup", "clear">>
    /\ sync_ret.value.messages_deduplicated = 2

\* The four statuses the BackendHealth declaration names (health.py:23).
DeclaredStatuses == {"ok", "degraded", "error", "unreachable"}

\* A single probe has returned.
SingleProbe == health_ret.op \in {"check_go_health", "check_baileys_health"}

\* C27 as stated: every BackendHealth of a probe has one of the four statuses,
\* unreachable only after a timeout or a refused connection, and error only
\* after a non-200 answer or a failure to process the answer, never out of the
\* body of a parsed HTTP 200 answer.
C27_AsStated ==
    SingleProbe =>
        /\ health_ret.out.value.status \in DeclaredStatuses
        /\ health_ret.out.value.status = "unreachable" =>
               ProbeAnswer.kind \in {"Timeout", "ConnectionError"}
        /\ health_ret.out.value.status = "error" => ~ProbeSucceeded(ProbeAnswer)

\* C27, what the probes do: on every path but the parsed 200 the status is
\* error or unreachable, unreachable exactly after a timeout or a refused
\* connection; after a parsed 200 the status is the body's "status" as it
\* stands, or ok when the body has none.
C27_Statuses ==
    SingleProbe =>
        /\ ~ProbeSucceeded(ProbeAnswer) =>
               /\ health_ret.out.value.status \in {"error", "unreachable"}
               /\ health_ret.out.value.status = "unreachable" <=>
                      ProbeAnswer.kind \in {"Timeout", "ConnectionError"}
        /\ ProbeSucceeded(ProbeAnswer) =>
               health_ret.out.value.status =
                   (IF ProbeAnswer.body.status = Absent THEN "ok"
                    ELSE ProbeAnswer.body.status)

\* A probe of go whose answer was a parsed 200 with "status": "error".
C27_Witness ==
    /\ health_ret.op = "check_go_health"
    /\ ProbeSucceeded(ProbeAnswer)
    /\ ProbeAnswer.body.status = "error"
    /\ health_ret.out.value.status = "error"

\* The backend's counter right after the last call, and before it.
CounterNow == FailureCount(monitor, health_ret.backend)
CounterBefore == health_ret.before[health_ret.backend]

\* C28 as stated: right after a probe the backend's counter is 0 only if the
\* probe returned ok or degraded, and a probe that returned error or
\* unreachable has incremented it.
C28_AsStated ==
    SingleProbe =>
        /\ CounterNow = 0 => health_ret.out.value.status \in AvailableStatuses
        /\ health_ret.out.value.status \in {"error", "unreachable"} =>
               CounterNow = CounterBefore + 1

\* C28, what the probes do: the counter is 0 after a parsed HTTP 200 answer,
\* whatever status its body carried, and one more than before on every other
\* path; so a probe that returned ok or degraded, and an is_backend_available
\* that returned True, leave it at 0, and the counter is the number of the
\* backend's latest consecutive probes that did not get a parsed 200.
C28_Counter ==
    /\ (SingleProbe \/ health_ret.op = "is_backend_available") =>
           /\ ProbeSucceeded(ProbeAnswer) => CounterNow = 0
           /\ ~ProbeSucceeded(ProbeAnswer) => CounterNow = CounterBefore + 1
           /\ CounterNow = streak[health_ret.backend]
    /\ SingleProbe =>
           (health_ret.out.value.status \in AvailableStatuses => CounterNow = 0)
    /\ health_ret.op = "is_backend_available" =>
           (health_ret.out.value = TRUE => CounterNow = 0)

\* A probe of baileys answered by a parsed 200 with "status": "error", after
\* two failed probes: the result is unavailable and the counter back at 0.
C28_Witness ==
    /\ health_ret.op = "check_baileys_health"
    /\ ProbeSucceeded(ProbeAnswer)
    /\ health_ret.out.value.status = "error"
    /\ CounterBefore = 2
    /\ CounterNow = 0

\* Thread t completes its self.round_robin_counter += 1 in this step.
Increments(t) == threads[t].pc = "store" /\ threads'[t].pc = "index"

\* C29 as stated: no increment is lost, that is, every completed += 1 of a
\* thread leaves the counter one higher than it was, so that after N
\* concurrent ROUND_ROBIN calls the counter has grown by N.
C29_AsStated ==
    [][\A t \in Threads :
           Increments(t) => round_robin_counter' = round_robin_counter + 1]_vars

\* C29, what the unlocked += 1 does: the thread writes the value it read plus
\* one, which is one more than the counter only if the counter still holds the
\* value read.
C29_Increment ==
    [][\A t \in Threads :
           Increments(t) =>
               /\ round_robin_counter' = threads[t].loaded + 1
               /\ round_robin_counter = threads[t].loaded =>
                      round_robin_counter' = round_robin_counter + 1]_vars

\* Two calls with a backend available have gone through their increment from
\* a counter at 0, and the counter is 1.
C29_Witness ==
    /\ \A t \in Threads :
           /\ threads[t].pc \in {"index", "done"}
           /\ Len(threads[t].available_backends) > 0
           /\ threads[t].loaded = 0
    /\ round_robin_counter = 1

\* The select_backend call that has returned went through the increment of
\* ROUND_ROBIN: no required backend, strategy ROUND_ROBIN, a backend listed.
CountingCall ==
    /\ call.required_backend = None
    /\ call.strategy = "round_robin"
    /\ Len(Snapshot.available_backends) > 0

\* C30: called one after the other, a ROUND_ROBIN select_backend with a
\* non-empty available list leaves the counter exactly one higher and returns
\* available[counter mod len(available)] for the new counter, so with both
\* backends available the selections alternate with the counter's parity
\* (even: go, odd: baileys); every other select_backend leaves the counter
\* as it was.
C30_Sequential ==
    (pc = "done" /\ call.fn = "select_backend") =>
        /\ CountingCall =>
               /\ round_robin_counter = call.counter + 1
               /\ route_ret = Return(Snapshot.available_backends[
                      (round_robin_counter % Len(Snapshot.available_backends)) + 1])
               /\ Len(Snapshot.available_backends) = 2 =>
                      route_ret = Return(IF round_robin_counter % 2 = 0
                                         THEN "go" ELSE "baileys")
        /\ ~CountingCall => round_robin_counter = call.counter

\* The second of two ROUND_ROBIN selections with both backends available:
\* the counter went from 1 to 2 and the call returned go.
C30_Witness ==
    /\ pc = "done"
    /\ call.fn = "select_backend"
    /\ CountingCall
    /\ Len(Snapshot.available_backends) = 2
    /\ call.counter = 1
    /\ round_robin_counter = 2
    /\ route_ret = Return("go")

\* get_routing_info runs in this step.
RoutingInfoStep == health_ret.op = "none" /\ health_ret'.op = "get_routing_info"

\* C31 as stated: get_routing_info leaves the Router's counter and strategy
\* table and the HealthMonitor's failure counters and last-known-health cache
\* unchanged, and reports the Router's current table.
C31_AsStated ==
    [][RoutingInfoStep =>
           /\ UNCHANGED <<round_robin_counter, operation_strategies, monitor>>
           /\ health_ret'.out.value.routing_strategies = operation_strategies']_vars

\* C31, what get_routing_info does: the Router's counter and strategy table
\* stay as they are and the table reported is the Router's; the HealthMonitor
\* is left as one check_all leaves it, each failure counter back at 0 after a
\* parsed 200 answer and one higher otherwise, the cache holding the result of
\* each such answer.
C31_RoutingInfo ==
    [][RoutingInfoStep =>
           /\ UNCHANGED <<round_robin_counter, operation_strategies>>
           /\ health_ret'.out.raised = "none"
           /\ health_ret'.out.value.routing_strategies = operation_strategies'
           /\ monitor' = check_all(monitor, health_ret'.resps[1],
                                   health_ret'.resps[2]).m
           /\ \A b \in Backends :
                  FailureCount(monitor', b) =
                      (IF ProbeSucceeded(health_ret'.resps[IF b = "go" THEN 1 ELSE 2])
                       THEN 0 ELSE FailureCount(monitor, b) + 1)]_vars

\* get_routing_info has returned with a strategy table that is no longer the
\* initial one and a counter that has moved, after a refused connection to go
\* that took go's failure counter from 1 to 2.
C31_Witness ==
    /\ health_ret.op = "get_routing_info"
    /\ operation_strategies # InitStrategies
    /\ round_robin_counter > 0
    /\ health_ret.out.value.routing_strategies = operation_strategies
    /\ health_ret.resps[1].kind = "ConnectionError"
    /\ health_ret.before["go"] = 1
    /\ monitor.go_failure_count = 2

\* The report of the finished workflow holds a cleanup step.
CleanupRecorded ==
    /\ workflow_ret.out.raised = "none"
    /\ "steps" \in DOMAIN workflow_ret.out.value
    /\ In("cleanup", StepNames(workflow_ret.out.value))

\* clear_temp_data was called during the finished workflow.
CleanupRun == In("clear_temp_data", workflow_ret.ops)

\* C32 as stated: in every run of mark_community_as_read_with_history, the
\* runs that halt at a failed health check, history sync or database sync
\* included, a cleanup step is run or recorded before the result is returned.
C32_AsStated == WorkflowDone => (CleanupRun \/ CleanupRecorded)

\* C32, what the workflow does: no run gets to the cleanup.  A failed health
\* check, history sync or database sync returns at once, and a successful
\* database sync is followed by the KeyError of "messages_skipped"; neither is
\* clear_temp_data called nor a cleanup step recorded.
C32_NoCleanup ==
    WorkflowDone =>
        /\ ~CleanupRun
        /\ ~CleanupRecorded
        /\ (HealthOk /\ HistoryOk /\ DatabaseOk) => workflow_ret.out = Raise("KeyError")
        /\ ~(HealthOk /\ HistoryOk /\ DatabaseOk) =>
               /\ workflow_ret.out.raised = "none"
               /\ ~workflow_ret.out.value.success

\* A run halted by a failed history sync after a passed health check: the
\* report ends with the history_sync step.
C32_Witness ==
    /\ WorkflowDone
    /\ HealthOk
    /\ ~HistoryOk
    /\ workflow_ret.out.raised = "none"
    /\ StepNames(workflow_ret.out.value) = <<"health_check", "history_sync">>
    /\ workflow_ret.ops = <<"backend_status", "retrieve_full_history">>

\* The stages up to the database sync succeeded in the finished workflow.
DatabaseSyncSucceeded == WorkflowDone /\ HealthOk /\ HistoryOk /\ DatabaseOk

\* The dict sync_history_to_database gave the finished workflow.
DatabaseSyncResult == sync_history_to_database(workflow_ret.answers.chat_results)

\* C33 as stated: after a database sync that succeeded with the dict of
\* sync_history_to_database, the workflow records a database_sync step and
\* goes on to the mark-as-read stage without raising.
C33_AsStated ==
    DatabaseSyncSucceeded =>
        /\ workflow_ret.out.raised = "none"
        /\ In("database_sync", StepNames(workflow_ret.out.value))
        /\ In("mark_community_as_read", workflow_ret.ops)

\* C33, what the workflow does: the dict of sync_history_to_database holds
\* success, messages_added, messages_deduplicated, chats_synced, chats_failed
\* and message; after a successful database sync the workflow reads
\* "messages_skipped" from it and ends with KeyError, the database sync being
\* its last call.
C33_KeyError ==
    DatabaseSyncSucceeded =>
        /\ DOMAIN DatabaseSyncResult =
               {"success", "messages_added", "messages_deduplicated",
                "chats_synced", "chats_failed", "message"}
        /\ workflow_ret.out = Raise("KeyError")
        /\ workflow_ret.ops = FirstN(WorkflowCalls, 3)

\* The database sync of the finished workflow synced one message of one chat.
C33_Witness ==
    /\ DatabaseSyncSucceeded
    /\ Cardinality(DOMAIN workflow_ret.answers.chat_results) = 1
    /\ DatabaseSyncResult.messages_added = 1
    /\ workflow_ret.out.raised = "KeyError"

\* The five steps of sync_messages, in their order.
StepOrder == <<"fetch", "lookup", "insert", "checkpoint", "clear">>

\* The place of step in StepOrder.
PlaceOf(step) == CHOOSE i \in 1..Len(StepOrder) : StepOrder[i] = step

\* C35: the steps a sync_messages call takes are steps of the five, in the
\* order fetch, lookup, insert, checkpoint, clear and each at most once; a
\* failed fetch ends the call after the fetch and a failed insert after the
\* insert, with neither checkpoint update nor clear.
C35_StepOrder ==
    sync_in.called =>
        /\ Len(sync_log) >= 1
        /\ sync_log[1] = "fetch"
        /\ \A i \in 1..Len(sync_log) : In(sync_log[i], StepOrder)
        /\ \A i \in 1..Len(sync_log), j \in 1..Len(sync_log) :
               i < j => PlaceOf(sync_log[i]) < PlaceOf(sync_log[j])
        /\ sync_in.fetch.raised # "none" =>
               /\ sync_log = <<"fetch">>
               /\ ~sync_ret.value.success
        /\ sync_in.insert.raised = "RequestException" =>
               /\ sync_log = <<"fetch", "lookup", "insert">>
               /\ ~sync_ret.value.success
        /\ (In("checkpoint", sync_log)
            \/ (In("insert", sync_log) /\ In("clear", sync_log))) =>
               /\ sync_in.insert.raised = "none"
               /\ sync_log = StepOrder

\* The insert of a batch of two failed: the call ended with the insert.
C35_Witness ==
    /\ sync_in.called
    /\ sync_in.insert.raised = "RequestException"
    /\ Len(submitted) = 2
    /\ sync_log = <<"fetch", "lookup", "insert">>
    /\ sync_in.steps = NoSteps

\* Thread t is inside a sync_messages call, or its result has not been taken.
InCall(t) == stores.syncers[t].pc # "idle"

\* The ids thread t has posted to the primary store in its call.
PostedBy(t) == IdsOf(stores.syncers[t].submitted)

PendingIds == UNION {IdsOf(stores.secondary[chat]) : chat \in StoreChats}

\* The ids the primary store holds, over all chats.
PrimaryIds == UNION {stores.primary[chat] : chat \in StoreChats}

\* Every message the secondary store ever held is in the primary store or
\* still pending.
NothingLost == stores.received \subseteq (PendingIds \cup PrimaryIds)

\* Thread t goes through the clear in this step.
Clears(t) == stores.syncers[t].pc = "clear" /\ stores'.syncers[t].pc = "done"

SyncToolDone ==
    /\ workflow_ret.op = "sync_history_to_database"
    /\ "listing" \in DOMAIN workflow_ret.answers

\* The SyncResults the tool aggregated.
ToolResults == workflow_ret.answers.chat_results

\* C37 as stated: sync_history_to_database reports success only if the chat
\* listing succeeded and the sync of every listed chat returned success; a
\* failed listing is never reported as a successful sync.
C37_AsStated ==
    (SyncToolDone /\ workflow_ret.out.value.success) =>
        /\ workflow_ret.answers.listing.raised = "none"
        /\ \A j \in DOMAIN ToolResults : ToolResults[j].success

\* C37, what the tool does: success is true exactly when the mapping returned
\* by sync_all_chats holds no failed SyncResult; after a failed listing the
\* mapping is empty, and the tool reports success with 0 chats synced.
C37_NoFailedEntry ==
    SyncToolDone =>
        /\ workflow_ret.out.value.success <=>
               (\A j \in DOMAIN ToolResults : ToolResults[j].success)
        /\ workflow_ret.out.value.chats_failed =
               Cardinality({j \in DOMAIN ToolResults : ~ToolResults[j].success})
        /\ workflow_ret.answers.listing.raised # "none" =>
               /\ DOMAIN ToolResults = {}
               /\ workflow_ret.out.value.success
               /\ workflow_ret.out.value.chats_synced = 0

\* The chat listing failed and the tool reported success.
C37_Witness ==
    /\ SyncToolDone
    /\ workflow_ret.answers.listing.raised = "RequestException"
    /\ workflow_ret.out.value.success
    /\ workflow_ret.out.value.chats_synced = 0

\* The first status the finished workflow read from the Baileys bridge.
FirstStatus == workflow_ret.answers.status

\* The database-sync stage of the finished workflow was started.
DatabaseSyncStarted ==
    WorkflowDone /\ In("sync_history_to_database", workflow_ret.ops)

\* The history sync was seen complete before retrieve_full_history returned:
\* by its first status, or by the wait it went into.
SeenComplete ==
    /\ FirstStatus.connected
    /\ \/ SyncComplete(FirstStatus)
       \/ ~FirstStatus.is_syncing /\ workflow_ret.answers.waited

\* C38 as stated: the database-sync stage starts only after the history sync
\* has completed (is_latest and not is_syncing).
C38_AsStated == DatabaseSyncStarted => SeenComplete

\* C38, what the code does: wait_for_sync_completion returns True only at a
\* poll, within its timeout and with every poll so far connected, that shows
\* is_latest and not is_syncing; but retrieve_full_history goes into that wait
\* only when the first status is neither syncing nor latest, and returns
\* success at once for a sync in progress, so the database-sync stage starts
\* when the sync was seen complete or was seen running.
C38_CompleteOrRunning ==
    /\ workflow_ret.op = "wait_for_sync_completion" =>
           (workflow_ret.out.value = TRUE <=>
               \E i \in 1..workflow_ret.answers.budget :
                   /\ SyncComplete(workflow_ret.answers.polls[i])
                   /\ \A k \in 1..i : workflow_ret.answers.polls[k].connected
                   /\ \A k \in 1..(i - 1) : ~SyncComplete(workflow_ret.answers.polls[k]))
    /\ DatabaseSyncStarted =>
           /\ FirstStatus.connected
           /\ SeenComplete \/ FirstStatus.is_syncing
    /\ (WorkflowDone /\ HealthOk /\ FirstStatus.connected /\ FirstStatus.is_syncing) =>
           DatabaseSyncStarted

\* The workflow went on to the database sync with the history sync still
\* running and not yet at the latest message.
C38_Witness ==
    /\ DatabaseSyncStarted
    /\ FirstStatus.is_syncing
    /\ ~FirstStatus.is_latest
    /\ ~workflow_ret.answers.waited

\* A select_backend without required_backend has returned, called directly
\* or by is_operation_available.
SelectedByStrategy ==
    /\ pc = "done"
    /\ call.fn \in {"select_backend", "is_operation_available"}
    /\ call.required_backend = None

\* The backend that select_backend returned.
SelectedBackend ==
    IF call.fn = "select_backend" THEN route_ret.value ELSE frame.primary_backend

\* C39: for every strategy and every health snapshot, a select_backend
\* without required_backend returns None or a backend of the snapshot's
\* available_backends, never the string "none", and None only if that list
\* is empty; is_operation_available is true iff a backend is available.
C39_Availability ==
    SelectedByStrategy =>
        /\ SelectedBackend # "none"
        /\ SelectedBackend = None \/ In(SelectedBackend, Snapshot.available_backends)
        /\ SelectedBackend = None <=> Len(Snapshot.available_backends) = 0
        /\ call.fn = "is_operation_available" =>
               (route_ret.value = TRUE <=> Len(Snapshot.available_backends) > 0)

\* is_operation_available answered False for an operation under
\* PRIMARY_ONLY with no backend available.
C39_Witness ==
    /\ pc = "done"
    /\ call.fn = "is_operation_available"
    /\ call.strategy = "primary_only"
    /\ Len(Snapshot.available_backends) = 0
    /\ Snapshot.primary_backend = "none"
    /\ route_ret = Return(FALSE)

====
